---- MODULE Spec2Model ----
(***************************************************************************)
(* Color Switch (Hex-to-Token): the plugin main thread of src/src/code.ts  *)
(* and the collection lookup of variableCollectionUtils.                   *)
(*                                                                         *)
(* Numbers.  A colour channel is an integer count of 1/1020 (so 1020 is    *)
(* 1.0, neighbouring channel values can share one byte of the hex form,    *)
(* and two different distances can lie within 1e-6 of each other); an      *)
(* alpha or opacity is an integer count of 1/1000; Undefined stands for a  *)
(* missing alpha/opacity (JS undefined).                                   *)
(* Strings that the code inspects (variable names, hex strings) are        *)
(* sequences of one-character strings.  null is the string "null" where    *)
(* the code holds an id or null.                                           *)
(***************************************************************************)
EXTENDS Integers, Sequences, FiniteSets, TLC

Null == "null"
Undefined == 0 - 1
ChannelOne == 1020
AlphaOne == 1000

(***************************************************************************)
(* Pure helpers of code.ts                                                 *)
(***************************************************************************)
GROUP_FILTER_PREFIXES == << <<"C","o","l","o","r","/">>, <<"B","l","a","c","k","/">> >>

RECURSIVE TrimStart(_)
TrimStart(s) == IF s # <<>> /\ Head(s) = " " THEN TrimStart(Tail(s)) ELSE s

RECURSIVE TrimEnd(_)
TrimEnd(s) ==
  IF s # <<>> /\ s[Len(s)] = " " THEN TrimEnd(SubSeq(s, 1, Len(s) - 1)) ELSE s

Trim(s) == TrimEnd(TrimStart(s))

StartsWith(s, p) == Len(s) >= Len(p) /\ SubSeq(s, 1, Len(p)) = p

matchesPrefix(variableName, prefix) == StartsWith(Trim(variableName), prefix)

\* Mutant for C11: the alpha is cut to two decimals instead of rounded
roundAlphaFloor(a) == (IF a = Undefined THEN AlphaOne ELSE a) \div 10

\* Mutant for C12: the alpha is rounded to one decimal
roundAlphaTenths(a) == 10 * (((IF a = Undefined THEN AlphaOne ELSE a) + 50) \div 100)

\* Math.round((a ?? 1) * 100) / 100, as a count of 1/100 (the product a * 100 taken
\* as exact)
roundAlpha(a) == ((IF a = Undefined THEN AlphaOne ELSE a) + 5) \div 10

\* Mutant for C10: the key keeps the alpha as it is, without rounding it
rgbOpacityKeyUnrounded(r, g, b, a) == <<r, g, b, IF a = Undefined THEN AlphaOne ELSE a>>

\* `${r},${g},${b},${roundAlpha(a ?? 1)}`
rgbOpacityKey(r, g, b, a) == <<r, g, b, roundAlpha(IF a = Undefined THEN AlphaOne ELSE a)>>

HexDigits == <<"0","1","2","3","4","5","6","7","8","9","a","b","c","d","e","f">>

\* Math.round(Math.max(0, Math.min(1, x)) * 255)
to255(x) ==
  LET clamped == IF x < 0 THEN 0 ELSE IF x > ChannelOne THEN ChannelOne ELSE x
  IN  (clamped + 2) \div 4

\* Mutant for C13: n.toString(16) without padStart
byteHexNoPad(n) ==
  IF n < 16 THEN <<HexDigits[n + 1]>> ELSE <<HexDigits[(n \div 16) + 1], HexDigits[(n % 16) + 1]>>

\* n.toString(16).padStart(2, "0")
byteHex(n) == <<HexDigits[(n \div 16) + 1], HexDigits[(n % 16) + 1]>>

rgbToHexStr(r, g, b) == byteHex(to255(r)) \o byteHex(to255(g)) \o byteHex(to255(b))

(***************************************************************************)
(* The host document and catalog (Figma), and the plugin's own state       *)
(***************************************************************************)
VARIABLES
  variables,            \* figma.variables: id -> variable, or removed
  nodes,                \* the page's nodes: id -> node, or removed
  selection,            \* figma.currentPage.selection
  edits,                \* number of external edits made so far
  commands,             \* number of commands received so far
  variableListCacheMap, \* code.ts:140
  lastScanItems,        \* code.ts:485
  scanProc,             \* the scan handler in flight, if any
  lookupProc,           \* the getSuggestions / getCandidatesForHex handler in flight
  applyProc,            \* the apply handler in flight
  tokenProc,            \* the applyTokenToColor handler in flight
  scanDone,             \* the last scanUI response
  lookupDone,           \* the last suggestions / candidatesResult response
  lookupFirst,          \* first list returned per cache key since the last scan began
  applyDone,            \* the last applyResult response
  tokenDone,            \* the last applyTokenToColorResult response
  call                  \* a call of one of the pure functions: its arguments and its result

vars == <<variables, nodes, selection, edits, commands, variableListCacheMap, lastScanItems,
          scanProc, lookupProc, applyProc, tokenProc,
          scanDone, lookupDone, lookupFirst, applyDone, tokenDone, call>>

world == <<variables, nodes, selection, edits>>

\* Names used by the bounded catalog and document
NamePrimitive == <<"P","r","i","m","i","t","i","v","e">>
NamePrimitiveLoose == <<"p","r","i","m","i","t","i","v","e"," ">>
NameBare == <<"B","a","r","e">>
NameLib == <<"L","i","b">>
NameMissing == <<"N","o","p","e">>
NameBlank == <<" ">>
NameLight == <<"L","i","g","h","t">>
NameDark == <<"D","a","r","k">>

UpperChars == <<"A","B","C","D","E","F","G","H","I","J","K","L","M",
                "N","O","P","Q","R","S","T","U","V","W","X","Y","Z">>
LowerChars == <<"a","b","c","d","e","f","g","h","i","j","k","l","m",
                "n","o","p","q","r","s","t","u","v","w","x","y","z">>

LowerOf == [c \in {UpperChars[i] : i \in 1..Len(UpperChars)} |->
              LowerChars[CHOOSE i \in 1..Len(UpperChars) : UpperChars[i] = c]]

toLowerCaseChar(c) == IF c \in DOMAIN LowerOf THEN LowerOf[c] ELSE c

toLowerCase(s) == [i \in 1..Len(s) |-> toLowerCaseChar(s[i])]

\* figma.variables.getLocalVariableCollectionsAsync(): the file's collections
LocalCollections ==
  << [name |-> NamePrimitive,
      modes |-> << [name |-> NameLight, modeId |-> "m1"],
                   [name |-> NameDark, modeId |-> "m2"] >>,
      variableIds |-> <<"v1", "v2">>],
     [name |-> NameBare, modes |-> <<>>, variableIds |-> <<"v1">>] >>

\* figma.teamLibrary.getAvailableLibraryVariableCollectionsAsync()
LibraryCollections == << [name |-> NameLib] >>

VarIds == {"v1", "v2"}
ModeIds == {"m1", "m2"}
NodeIds == {"n1", "n2"}

\* The page holds n1, and n1 holds n2
PageChildren == <<"n1">>
Children(id) == IF id = "n1" THEN <<"n2">> ELSE <<>>

NodeName(id) == IF id = "n1" THEN "Frame" ELSE "Label"

\* localCollections.find(...) / libraryCollections.find(...): first with the name
FindByName(cols, nameLower) ==
  LET hits == {i \in 1..Len(cols) : toLowerCase(Trim(cols[i].name)) = nameLower}
  IN  IF hits = {} THEN 0 ELSE CHOOSE i \in hits : \A j \in hits : i <= j

findVariableCollectionByName(name) ==
  LET nameLower == toLowerCase(Trim(name))
      li == FindByName(LocalCollections, nameLower)
      bi == FindByName(LibraryCollections, nameLower)
  IN  IF nameLower = <<>> THEN [type |-> "null", queried |-> FALSE, index |-> 0]
      ELSE IF li # 0 THEN [type |-> "local", queried |-> TRUE, index |-> li]
      ELSE IF bi # 0 THEN [type |-> "library", queried |-> TRUE, index |-> bi]
      ELSE [type |-> "null", queried |-> TRUE, index |-> 0]

\* Mutant for C25: the mode name compared as it is written, m.name === mode
ResolveModeIdExactCase(collection, mode) ==
  LET hits == {i \in 1..Len(collection.modes) : collection.modes[i].name = mode}
  IN  IF hits # {} THEN collection.modes[CHOOSE i \in hits : \A j \in hits : i <= j].modeId
      ELSE IF collection.modes # <<>> THEN collection.modes[1].modeId
      ELSE Null

\* Mutant for C25: no fallback to the first mode when no name matches
ResolveModeIdNoFallback(collection, mode) ==
  LET hits == {i \in 1..Len(collection.modes) :
                 toLowerCase(collection.modes[i].name) = toLowerCase(mode)}
  IN  IF hits # {} THEN collection.modes[CHOOSE i \in hits : \A j \in hits : i <= j].modeId
      ELSE Null

\* collection.modes.find(case-insensitive)?.modeId ?? collection.modes[0]?.modeId
ResolveModeId(collection, mode) ==
  LET hits == {i \in 1..Len(collection.modes) :
                 toLowerCase(collection.modes[i].name) = toLowerCase(mode)}
  IN  IF hits # {} THEN collection.modes[CHOOSE i \in hits : \A j \in hits : i <= j].modeId
      ELSE IF collection.modes # <<>> THEN collection.modes[1].modeId
      ELSE Null

\* variable && variable.resolvedType === "COLOR" && value is an object with "r"
IsColorEntry(variableId, modeId) ==
  /\ variables[variableId].exists
  /\ variables[variableId].resolvedType = "COLOR"
  /\ variables[variableId].valuesByMode[modeId].kind = "color"

MapSet(map, key, val) ==
  [k \in DOMAIN map \cup {key} |-> IF k = key THEN val ELSE map[k]]

EmptyMap == [k \in {} |-> Null]

EntryKey(variableId, modeId) ==
  LET v == variables[variableId].valuesByMode[modeId]
  IN  rgbOpacityKey(v.r, v.g, v.b, v.a)

EntryOf(variableId) ==
  [variableId |-> variableId, name |-> variables[variableId].name]

(***************************************************************************)
(* CatalogIndexer: getCollectionColorMap and getCollectionVariableList     *)
(***************************************************************************)
\* Mutant for C6: the filtered passes overwrite like the unfiltered one (last wins)
InsertEntryLastWins(map, key, entry, useGroupFilters) == MapSet(map, key, entry)

\* Mutant for C24: the unfiltered pass keeps the entry already there (first wins)
InsertEntryFirstWins(map, key, entry, useGroupFilters) ==
  IF key \in DOMAIN map THEN map ELSE MapSet(map, key, entry)

\* code.ts:115 map.set(key, ...) and code.ts:132 if (!map.has(key)) map.set(key, ...)
InsertEntry(map, key, entry, useGroupFilters) ==
  IF useGroupFilters /\ key \in DOMAIN map THEN map ELSE MapSet(map, key, entry)

\* code.ts:121 the prefixes walked, in priority order
PrefixOrder(groupPrefixes) ==
  IF Len(groupPrefixes) >= 2 THEN <<groupPrefixes[1], groupPrefixes[2]>> ELSE groupPrefixes

\* One pass over collection.variableIds (code.ts:107-117, 123-134);
\* prefix = <<>> stands for the unfiltered pass
RECURSIVE ColorMapPass(_, _, _, _, _)
ColorMapPass(ids, modeId, prefix, useGroupFilters, map) ==
  IF ids = <<>> THEN map
  ELSE LET id == Head(ids)
           taken == /\ IsColorEntry(id, modeId)
                    /\ (useGroupFilters => matchesPrefix(variables[id].name, prefix))
           next == IF taken
                   THEN InsertEntry(map, EntryKey(id, modeId), EntryOf(id), useGroupFilters)
                   ELSE map
       IN  ColorMapPass(Tail(ids), modeId, prefix, useGroupFilters, next)

RECURSIVE ColorMapGroups(_, _, _, _)
ColorMapGroups(order, ids, modeId, map) ==
  IF order = <<>> THEN map
  ELSE ColorMapGroups(Tail(order), ids, modeId,
                      ColorMapPass(ids, modeId, Head(order), TRUE, map))

getCollectionColorMap(collectionName, mode, useGroupFilters) ==
  LET found == findVariableCollectionByName(collectionName)
      collection == LocalCollections[found.index]
      modeId == ResolveModeId(collection, mode)
  IN  IF found.type # "local" THEN EmptyMap
      ELSE IF modeId = Null THEN EmptyMap
      ELSE IF ~useGroupFilters
           THEN ColorMapPass(collection.variableIds, modeId, <<>>, FALSE, EmptyMap)
           ELSE ColorMapGroups(PrefixOrder(GROUP_FILTER_PREFIXES),
                               collection.variableIds, modeId, EmptyMap)

\* code.ts:152-153 the cache key
ListCacheKey(collectionName, mode, useGroupFilters) ==
  <<collectionName, mode, useGroupFilters, IF useGroupFilters THEN "all" ELSE "none">>

\* code.ts:164-176 the list, in collection order
RECURSIVE VariableListPass(_, _, _)
VariableListPass(ids, modeId, useGroupFilters) ==
  IF ids = <<>> THEN <<>>
  ELSE LET id == Head(ids)
           v == variables[id].valuesByMode[modeId]
           taken == /\ IsColorEntry(id, modeId)
                    /\ (useGroupFilters =>
                          \E i \in 1..Len(GROUP_FILTER_PREFIXES) :
                             matchesPrefix(variables[id].name, GROUP_FILTER_PREFIXES[i]))
           rest == VariableListPass(Tail(ids), modeId, useGroupFilters)
       IN  IF taken
           THEN <<[variableId |-> id, variableName |-> variables[id].name,
                   r |-> v.r, g |-> v.g, b |-> v.b]>> \o rest
           ELSE rest

\* Mutant for C5: an empty cached list counts as a miss
CacheHitNonEmpty(cache, key) == key \in DOMAIN cache /\ cache[key] # <<>>

\* code.ts:154-155 the cache hit test: any cached array, an empty one too
CacheHit(cache, key) == key \in DOMAIN cache

\* getCollectionVariableList on a cache miss (code.ts:157-178): the list returned,
\* whether it is stored, and whether the catalog store was queried
BuildVariableList(collectionName, mode, useGroupFilters) ==
  LET found == findVariableCollectionByName(collectionName)
      collection == LocalCollections[found.index]
      modeId == ResolveModeId(collection, mode)
  IN  IF found.type # "local"
      THEN [list |-> <<>>, stored |-> FALSE, queried |-> found.queried]
      ELSE IF modeId = Null
      THEN [list |-> <<>>, stored |-> FALSE, queried |-> TRUE]
      ELSE [list |-> VariableListPass(collection.variableIds, modeId, useGroupFilters),
            stored |-> TRUE, queried |-> TRUE]

(***************************************************************************)
(* ScanOrchestrator: collectNodes, scanNodes, runScan                      *)
(***************************************************************************)
\* hasFillStroke(node) && node.fills && Array.isArray(node.fills)
IsCollected(id) == nodes[id].exists /\ nodes[id].fills.kind = "array"

RECURSIVE collectNodes(_)
RECURSIVE collectAll(_)
collectNodes(id) ==
  IF ~nodes[id].exists THEN <<>>
  ELSE (IF IsCollected(id) THEN <<id>> ELSE <<>>) \o collectAll(Children(id))

\* for (const child of node.children) out.push(...collectNodes(child)), and flatMap
collectAll(ids) ==
  IF ids = <<>> THEN <<>> ELSE collectNodes(Head(ids)) \o collectAll(Tail(ids))

\* node.boundVariables?.[property]?.[index] == null
isSolidUnbound(paint) == paint.bound = Null

\* code.ts:215-231 / 235-251: the items of one paint list
RECURSIVE ScanPaints(_, _, _, _, _)
ScanPaints(id, property, paints, i, colorMap) ==
  IF i > Len(paints) THEN <<>>
  ELSE LET p == paints[i]
           opacity == IF p.opacity = Undefined THEN AlphaOne ELSE p.opacity
           key == rgbOpacityKey(p.color[1], p.color[2], p.color[3], opacity)
           matched == key \in DOMAIN colorMap
           item == [nodeId |-> id, nodeName |-> nodes[id].name, property |-> property,
                    index |-> i - 1, currentColor |-> p.color, opacity |-> opacity,
                    matchVariableId |-> IF matched THEN colorMap[key].variableId ELSE Null,
                    matchVariableName |-> IF matched THEN colorMap[key].name ELSE <<>>]
           rest == ScanPaints(id, property, paints, i + 1, colorMap)
       IN  IF p.type = "SOLID" /\ isSolidUnbound(p) THEN <<item>> \o rest ELSE rest

RECURSIVE scanNodes(_, _)
scanNodes(ids, colorMap) ==
  IF ids = <<>> THEN <<>>
  ELSE LET id == Head(ids)
           fills == ScanPaints(id, "fills", nodes[id].fills.paints, 1, colorMap)
           strokes == IF nodes[id].strokes.kind = "array"
                      THEN ScanPaints(id, "strokes", nodes[id].strokes.paints, 1, colorMap)
                      ELSE <<>>
       IN  fills \o strokes \o scanNodes(Tail(ids), colorMap)

ItemHex(item) == rgbToHexStr(item.currentColor[1], item.currentColor[2], item.currentColor[3])

IsMatched(item) == item.matchVariableId # Null

\* Mutant for C19: matchedByHex.set without the has() test, the last matched item
\* of a hex replacing the ones before it
RECURSIVE MatchedByHexLastWins(_, _)
MatchedByHexLastWins(items, acc) ==
  IF items = <<>> THEN acc
  ELSE LET it == Head(items)
           entry == [hex |-> ItemHex(it), tokenName |-> it.matchVariableName,
                     variableId |-> it.matchVariableId]
           seen == \E k \in 1..Len(acc) : acc[k].hex = ItemHex(it)
           next == IF ~IsMatched(it) THEN acc
                   ELSE IF seen THEN [k \in 1..Len(acc) |->
                                        IF acc[k].hex = ItemHex(it) THEN entry ELSE acc[k]]
                   ELSE Append(acc, entry)
       IN  MatchedByHexLastWins(Tail(items), next)

\* code.ts:293-302 matchedByHex: first matched item per hex, in first-seen order
RECURSIVE MatchedByHex(_, _)
MatchedByHex(items, acc) ==
  IF items = <<>> THEN acc
  ELSE LET it == Head(items)
           seen == \E k \in 1..Len(acc) : acc[k].hex = ItemHex(it)
           next == IF IsMatched(it) /\ ~seen
                   THEN Append(acc, [hex |-> ItemHex(it), tokenName |-> it.matchVariableName,
                                     variableId |-> it.matchVariableId])
                   ELSE acc
       IN  MatchedByHex(Tail(items), next)

\* Mutant for C27: a hex with a matched item is left out of noMatchHexSet
NoMatchHexesWithoutMatched(items) ==
  {ItemHex(items[k]) : k \in {j \in 1..Len(items) : ~IsMatched(items[j])}}
    \ {ItemHex(items[k]) : k \in {j \in 1..Len(items) : IsMatched(items[j])}}

\* code.ts:294-309 noMatchHexSet (the response sorts it; a set carries no order)
NoMatchHexes(items) == {ItemHex(items[k]) : k \in {j \in 1..Len(items) : ~IsMatched(items[j])}}

\* runScan (code.ts:267-326)
runScan(collectionName, mode, useGroupFilters) ==
  LET colorMap == getCollectionColorMap(collectionName, mode, useGroupFilters)
      scanned == IF selection # <<>> THEN collectAll(selection) ELSE collectAll(PageChildren)
      items == scanNodes(scanned, colorMap)
  IN  IF DOMAIN colorMap = {}
      THEN [items |-> <<>>, matchedColors |-> <<>>, noMatchColors |-> {},
            totalScanned |-> 0,
            error |-> IF useGroupFilters THEN "noFilteredColorVariables"
                      ELSE "collectionOrColorVariablesNotFound"]
      ELSE [items |-> items, matchedColors |-> MatchedByHex(items, <<>>),
            noMatchColors |-> NoMatchHexes(items),
            totalScanned |-> Len(items), error |-> Null]

(***************************************************************************)
(* BindingApplier: applyBindingsToItems and applyTokenToColor              *)
(***************************************************************************)
ZeroResult == [appliedCount |-> 0, skippedCount |-> 0, failedCount |-> 0,
               failedReasons |-> <<>>]

\* node.fills / node.strokes of an existing node
SlotList(item) ==
  IF item.property = "fills" THEN nodes[item.nodeId].fills ELSE nodes[item.nodeId].strokes

HasPaint(item) ==
  SlotList(item).kind = "array" /\ item.index + 1 <= Len(SlotList(item).paints)

\* Mutant for C1: the loop body without the boundVariables check of code.ts:361-365
applyBindingsOutcomeNoBoundCheck(item, raised) ==
  IF ~variables[item.matchVariableId].exists THEN "variableNotFound"
  ELSE IF ~nodes[item.nodeId].exists THEN "nodeNotFound"
  ELSE IF SlotList(item).kind # "array" THEN "skippedNoPaints"
  ELSE IF ~HasPaint(item) \/ SlotList(item).paints[item.index + 1].type # "SOLID"
       THEN "skippedNotSolid"
  ELSE IF raised # Null THEN "bindRaised"
  ELSE "applied"

\* Mutant for C9: the loop body without the null checks of code.ts:341-355
applyBindingsOutcomeNoNullCheck(item, raised) ==
  IF SlotList(item).kind # "array" THEN "skippedNoPaints"
  ELSE IF HasPaint(item) /\ SlotList(item).paints[item.index + 1].bound # Null
       THEN "skippedBound"
  ELSE IF ~HasPaint(item) \/ SlotList(item).paints[item.index + 1].type # "SOLID"
       THEN "skippedNotSolid"
  ELSE IF raised # Null THEN "bindRaised"
  ELSE "applied"

\* Mutant for C23: the loop body without the test paint.type !== "SOLID" of
\* code.ts:367, 394
applyBindingsOutcomeNoSolidCheck(item, raised) ==
  IF ~variables[item.matchVariableId].exists THEN "variableNotFound"
  ELSE IF ~nodes[item.nodeId].exists THEN "nodeNotFound"
  ELSE IF SlotList(item).kind # "array" THEN "skippedNoPaints"
  ELSE IF HasPaint(item) /\ SlotList(item).paints[item.index + 1].bound # Null
       THEN "skippedBound"
  ELSE IF ~HasPaint(item) THEN "skippedNotSolid"
  ELSE IF raised # Null THEN "bindRaised"
  ELSE "applied"

\* What the loop body of applyBindingsToItems does with one item (code.ts:340-408);
\* raised is the message setBoundVariableForPaint or the fills/strokes assignment
\* throws, or Null when they return
applyBindingsOutcome(item, raised) ==
  IF ~variables[item.matchVariableId].exists THEN "variableNotFound"
  ELSE IF ~nodes[item.nodeId].exists THEN "nodeNotFound"
  ELSE IF SlotList(item).kind # "array" THEN "skippedNoPaints"
  ELSE IF HasPaint(item) /\ SlotList(item).paints[item.index + 1].bound # Null
       THEN "skippedBound"
  ELSE IF ~HasPaint(item) \/ SlotList(item).paints[item.index + 1].type # "SOLID"
       THEN "skippedNotSolid"
  ELSE IF raised # Null THEN "bindRaised"
  ELSE "applied"

\* What the loop body of applyTokenToColor does with one item (code.ts:428-480)
applyTokenOutcome(item, raised) ==
  IF ~nodes[item.nodeId].exists THEN "nodeNotFound"
  ELSE IF SlotList(item).kind # "array" THEN "skippedNoPaints"
  ELSE IF ~HasPaint(item) \/ SlotList(item).paints[item.index + 1].type # "SOLID"
       THEN "skippedNotSolid"
  ELSE IF raised # Null THEN "bindRaised"
  ELSE "applied"

SkippedKinds == {"skippedNoPaints", "skippedBound", "skippedNotSolid"}
FailedKinds == {"variableNotFound", "nodeNotFound", "bindRaised"}

\* The reason strings pushed by applyBindingsToItems (code.ts:343, 353, 379, 406):
\* prefix is the text between the leading brackets
applyBindingsReason(item, outcome, raised) ==
  IF outcome = "variableNotFound"
  THEN [prefix |-> item.nodeName, text |-> "variableNotFound",
        detail |-> <<item.matchVariableId>>]
  ELSE IF outcome = "nodeNotFound"
  THEN [prefix |-> item.nodeName, text |-> "nodeNotFound", detail |-> <<item.nodeId>>]
  ELSE [prefix |-> item.nodeName, text |-> raised, detail |-> <<item.property, item.index>>]

\* The reason strings pushed by the loop of applyTokenToColor (code.ts:435, 456, 478)
applyTokenReason(item, outcome, raised) ==
  IF outcome = "nodeNotFound"
  THEN [prefix |-> item.nodeName, text |-> "nodeNotFound", detail |-> <<>>]
  ELSE [prefix |-> item.nodeName, text |-> raised, detail |-> <<>>]

\* result.appliedCount++ / skippedCount++ / failedCount++ and failedReasons.push
Tally(result, outcome, reason) ==
  IF outcome = "applied" THEN [result EXCEPT !.appliedCount = @ + 1]
  ELSE IF outcome \in SkippedKinds THEN [result EXCEPT !.skippedCount = @ + 1]
  ELSE [result EXCEPT !.failedCount = @ + 1, !.failedReasons = Append(@, reason)]

\* Mutant for C7: a raising bind leaves the loop (no try/catch inside the loop body)
LoopStopsOnRaise(outcome) == outcome # "bindRaised"

\* Whether the loop goes on to the next item after this outcome: every branch of
\* the loop body ends in continue, the catch blocks included (code.ts:377-381)
LoopContinues(outcome) == TRUE

\* Mutant for C22: node.fills = [newPaint], the list replaced by the bound paint alone
BindSlotAlone(ns, item, variableId) ==
  LET list == IF item.property = "fills" THEN ns[item.nodeId].fills ELSE ns[item.nodeId].strokes
      alone == [list EXCEPT !.paints = <<[@[item.index + 1] EXCEPT !.bound = variableId]>>]
  IN  IF item.property = "fills" THEN [ns EXCEPT ![item.nodeId].fills = alone]
      ELSE [ns EXCEPT ![item.nodeId].strokes = alone]

\* paints[item.index] = newPaint; node.fills = paints (code.ts:373-375, 450-452):
\* the slot gets the variable, the other paints and the slot's opacity stay
BindSlot(ns, item, variableId) ==
  IF item.property = "fills"
  THEN [ns EXCEPT ![item.nodeId].fills.paints[item.index + 1].bound = variableId]
  ELSE [ns EXCEPT ![item.nodeId].strokes.paints[item.index + 1].bound = variableId]

\* items.filter(i => i.matchVariableId != null) (code.ts:337)
RECURSIVE SelectSeq2(_, _)
SelectSeq2(seq, keep) ==
  IF seq = <<>> THEN <<>>
  ELSE (IF Head(seq) \in keep THEN <<Head(seq)>> ELSE <<>>) \o SelectSeq2(Tail(seq), keep)

Range(seq) == {seq[k] : k \in 1..Len(seq)}

MatchedItems(items) == SelectSeq2(items, {it \in Range(items) : IsMatched(it)})

\* hex.replace(/^#/, "").trim()
NormalizeHex(hex) == Trim(IF hex # <<>> /\ Head(hex) = "#" THEN Tail(hex) ELSE hex)

\* lastScanItems.filter(...) of applyTokenToColor (code.ts:416-420)
ItemsToBind(items, hex) ==
  SelectSeq2(items, {it \in Range(items) : ~IsMatched(it) /\ ItemHex(it) = NormalizeHex(hex)})

(***************************************************************************)
(* Colour codec and CandidateRanker                                        *)
(***************************************************************************)
\* The value of one hex digit, either case, or -1
HexValueOf == [c \in {HexDigits[i] : i \in 1..16} |-> (CHOOSE i \in 1..16 : HexDigits[i] = c) - 1]

HexValue(c) ==
  IF toLowerCaseChar(c) \in DOMAIN HexValueOf THEN HexValueOf[toLowerCaseChar(c)] ELSE 0 - 1

\* The digits parseInt reads: the longest run of hex digits at the front
RECURSIVE ParseDigits(_, _, _)
ParseDigits(s, acc, any) ==
  IF s = <<>> \/ HexValue(Head(s)) < 0 THEN [n |-> acc, any |-> any]
  ELSE ParseDigits(Tail(s), acc * 16 + HexValue(Head(s)), TRUE)

\* parseInt(s, 16): leading blanks, a sign, an optional 0x, then digits; NaN without any
parseInt16(s) ==
  LET t == TrimStart(s)
      neg == t # <<>> /\ Head(t) = "-"
      u == IF t # <<>> /\ Head(t) \in {"-", "+"} THEN Tail(t) ELSE t
      w == IF Len(u) >= 2 /\ u[1] = "0" /\ u[2] \in {"x", "X"} THEN SubSeq(u, 3, Len(u)) ELSE u
      d == ParseDigits(w, 0, FALSE)
  IN  [isNaN |-> ~d.any, n |-> IF neg THEN 0 - d.n ELSE d.n]

\* (n >> shift) & 0xff on the 32-bit two's complement of n; n is within 24 bits here
ByteAt(n, shift) == ((n % 16777216) \div shift) % 256

\* parseHexToRgb (code.ts:54-64); a channel byte/255 is the count 4 * byte of 1/1020
parseHexToRgb(hex) ==
  LET s == NormalizeHex(hex)
      p == parseInt16(s)
  IN  IF Len(s) # 6 \/ p.isNaN THEN [ok |-> FALSE, rgb |-> <<0, 0, 0>>]
      ELSE [ok |-> TRUE,
            rgb |-> <<4 * ByteAt(p.n, 65536), 4 * ByteAt(p.n, 256), 4 * ByteAt(p.n, 1)>>]

\* colorDistance squared, in (1/1020)^2
DistanceSq(a, v) ==
  (a[1] - v.r) * (a[1] - v.r) + (a[2] - v.g) * (a[2] - v.g) + (a[3] - v.b) * (a[3] - v.b)

\* Math.abs(a.distance - b.distance) < 1e-6, on the squares A <= B of the two
\* distances in (1/1020)^2: sqrt(B) - sqrt(A) < t with t = 1020 * 1e-6, that is
\* A > (B - A - t*t)^2 / (4*t*t), which is 240291.7 for a gap of one, 961167.8 for
\* two and 2162628.3 for three; a gap of four would need more than 3 * 1020^2.
DistanceTie(da, db) ==
  LET lo == IF da < db THEN da ELSE db
      gap == IF da < db THEN db - da ELSE da - db
  IN  \/ gap = 0
      \/ gap = 1 /\ lo >= 240292
      \/ gap = 2 /\ lo >= 961168
      \/ gap = 3 /\ lo >= 2162629

\* String.prototype.localeCompare: letters compare first without case, blanks and
\* punctuation before digits before letters; equal so far, lower case comes first
CollationOrder == <<" ", "/", "0","1","2","3","4","5","6","7","8","9">> \o LowerChars

CollationRankOf == [c \in {CollationOrder[i] : i \in 1..Len(CollationOrder)} |->
                      CHOOSE i \in 1..Len(CollationOrder) : CollationOrder[i] = c]

CollationRank(c) ==
  IF toLowerCaseChar(c) \in DOMAIN CollationRankOf THEN CollationRankOf[toLowerCaseChar(c)]
  ELSE 0

RECURSIVE ComparePrimary(_, _)
ComparePrimary(a, b) ==
  IF a = <<>> /\ b = <<>> THEN 0
  ELSE IF a = <<>> THEN 0 - 1
  ELSE IF b = <<>> THEN 1
  ELSE IF CollationRank(Head(a)) < CollationRank(Head(b)) THEN 0 - 1
  ELSE IF CollationRank(Head(a)) > CollationRank(Head(b)) THEN 1
  ELSE ComparePrimary(Tail(a), Tail(b))

RECURSIVE CompareCase(_, _)
CompareCase(a, b) ==
  IF a = <<>> \/ b = <<>> THEN 0
  ELSE IF Head(a) = Head(b) THEN CompareCase(Tail(a), Tail(b))
  ELSE IF toLowerCaseChar(Head(a)) = Head(a) THEN 0 - 1
  ELSE 1

localeCompare(a, b) ==
  IF ComparePrimary(a, b) # 0 THEN ComparePrimary(a, b) ELSE CompareCase(a, b)

\* Mutant for C15: the comparator looks at the distances only
CompareCandidatesByDistance(a, b) ==
  IF DistanceTie(a.distance, b.distance) THEN 0
  ELSE IF a.distance < b.distance THEN 0 - 1 ELSE 1

\* The comparator of code.ts:192-195 and 593-596, as a sign
CompareCandidates(a, b) ==
  IF DistanceTie(a.distance, b.distance) THEN localeCompare(a.variableName, b.variableName)
  ELSE IF a.distance < b.distance THEN 0 - 1 ELSE 1

\* Array.prototype.sort is stable: an element goes after everything not above it
RECURSIVE InsertSorted(_, _)
InsertSorted(sorted, x) ==
  IF sorted = <<>> THEN <<x>>
  ELSE IF CompareCandidates(sorted[Len(sorted)], x) <= 0 THEN Append(sorted, x)
  ELSE Append(InsertSorted(SubSeq(sorted, 1, Len(sorted) - 1), x), sorted[Len(sorted)])

RECURSIVE SortCandidates(_, _)
SortCandidates(list, sorted) ==
  IF list = <<>> THEN sorted
  ELSE SortCandidates(Tail(list), InsertSorted(sorted, Head(list)))

CANDIDATE_LIMIT == 12

\* Mutant for C17: the sorted list is returned whole, without slice(0, limit)
computeCandidatesNoSlice(list, targetRgb, limit) ==
  LET withDistance == [k \in 1..Len(list) |->
                         [variableId |-> list[k].variableId,
                          variableName |-> list[k].variableName,
                          hex |-> rgbToHexStr(list[k].r, list[k].g, list[k].b),
                          distance |-> DistanceSq(targetRgb, list[k])]]
      sorted == SortCandidates(withDistance, <<>>)
  IN  [k \in 1..Len(sorted) |->
         [variableId |-> sorted[k].variableId, variableName |-> sorted[k].variableName,
          hex |-> sorted[k].hex]]

\* computeCandidates (code.ts:182-197) and its inline copy (code.ts:588-597)
computeCandidates(list, targetRgb, limit) ==
  LET withDistance == [k \in 1..Len(list) |->
                         [variableId |-> list[k].variableId,
                          variableName |-> list[k].variableName,
                          hex |-> rgbToHexStr(list[k].r, list[k].g, list[k].b),
                          distance |-> DistanceSq(targetRgb, list[k])]]
      sorted == SortCandidates(withDistance, <<>>)
      top == SubSeq(sorted, 1, IF Len(sorted) < limit THEN Len(sorted) ELSE limit)
  IN  [k \in 1..Len(top) |->
         [variableId |-> top[k].variableId, variableName |-> top[k].variableName,
          hex |-> top[k].hex]]

(***************************************************************************)
(* Bounded worlds and requests                                             *)
(***************************************************************************)
MaxEdits == 1
MaxCommands == 3

Blue == <<0, 0, 1020>>
NearBlue == <<0, 0, 1019>>
Red == <<1020, 0, 0>>

NameColorBlue == <<"C","o","l","o","r","/","b","l","u","e">>
NameBlackInk == <<"B","l","a","c","k","/","i","n","k">>
NameColorPadded == <<" ","C","o","l","o","r","/","b","g">>
NameInk == <<"i","n","k">>

ColorValue(rgb, a) == [kind |-> "color", r |-> rgb[1], g |-> rgb[2], b |-> rgb[3], a |-> a]
AliasValue == [kind |-> "alias", r |-> 0, g |-> 0, b |-> 0, a |-> Undefined]

Variable(name, type, light, dark) ==
  [exists |-> TRUE, name |-> name, resolvedType |-> type,
   valuesByMode |-> [m \in ModeIds |-> IF m = "m1" THEN light ELSE dark]]

SolidPaint(rgb, opacity) ==
  [type |-> "SOLID", color |-> rgb, opacity |-> opacity, bound |-> Null]
GradientPaint == [type |-> "GRADIENT_LINEAR", color |-> <<0, 0, 0>>, opacity |-> AlphaOne,
                  bound |-> Null]

PaintArray(paints) == [kind |-> "array", paints |-> paints]
NoPaints(kind) == [kind |-> kind, paints |-> <<>>]

Node(id, fills, strokes) ==
  [exists |-> TRUE, name |-> NodeName(id), fills |-> fills, strokes |-> strokes]

\* The catalog of the handler specifications: two entries with one ExactKey in Light,
\* both aliases of other variables in Dark
MainVariables ==
  { [v \in VarIds |->
       IF v = "v1"
       THEN Variable(NameColorBlue, "COLOR", ColorValue(Blue, AlphaOne), AliasValue)
       ELSE Variable(NameBlackInk, "COLOR", ColorValue(Blue, 996), AliasValue)] }

\* Its documents: a frame with one fill and one stroke, holding a label with one fill;
\* two slots share a colour
MainNodes ==
  { [n \in NodeIds |->
       IF n = "n1"
       THEN Node(n, PaintArray(<<SolidPaint(a, AlphaOne)>>), PaintArray(<<SolidPaint(b, Undefined)>>))
       ELSE Node(n, PaintArray(<<SolidPaint(c, AlphaOne)>>), NoPaints("absent"))]
    : <<a, b, c>> \in {<<Blue, Red, Blue>>, <<Red, Blue, Red>>} }

\* The document of the binding handlers: two blue fills, which the catalog matches,
\* and two red strokes, which it does not, so each handler meets a batch of two
ApplyNodes ==
  { [n \in NodeIds |->
       Node(n, PaintArray(<<SolidPaint(Blue, AlphaOne)>>),
            PaintArray(<<SolidPaint(Red, IF n = "n1" THEN Undefined ELSE AlphaOne)>>))] }

MainScanRequests ==
  { [collectionName |-> c, mode |-> m, useGroupFilters |-> FALSE]
    : c \in {NamePrimitive, NameMissing, NameBlank, <<>>}, m \in {NameLight} }

HexRed == rgbToHexStr(Red[1], Red[2], Red[3])

MainLookupRequests ==
  { [kind |-> k, collectionName |-> q[1], mode |-> q[2], useGroupFilters |-> q[3],
     hex |-> q[4]]
    : k \in {"getSuggestions", "getCandidatesForHex"},
      q \in { <<NamePrimitive, NameLight, FALSE, HexRed>>,
              <<NamePrimitive, NameLight, TRUE, HexRed>>,
              <<NamePrimitive, NameDark, FALSE, HexRed>>,
              <<NameMissing, NameLight, FALSE, HexRed>>,
              <<NamePrimitive, NameLight, FALSE, <<"z">> >> } }

MainTokenRequests ==
  { [hex |-> h, variableId |-> v]
    : h \in {HexRed, <<"#">> \o HexRed},
      v \in {"v1"} }

\* The message one bind attempt may raise
BindErrors == {"locked"}

IdleScan == [pc |-> "idle", collectionName |-> <<>>, mode |-> <<>>,
             useGroupFilters |-> FALSE, cacheBefore |-> EmptyMap, itemsBefore |-> <<>>]
IdleLookup == [pc |-> "idle", kind |-> "", collectionName |-> <<>>, mode |-> <<>>,
               useGroupFilters |-> FALSE, hex |-> <<>>]
IdleBinder == [pc |-> "idle", hex |-> <<>>, variableId |-> Null, items |-> <<>>, i |-> 1,
               result |-> ZeroResult, trace |-> <<>>, dirty |-> FALSE, prev |-> <<>>]

\* No pure function is being called
NoCall == [fn |-> "none"]

InitHandlers ==
  /\ variableListCacheMap = EmptyMap
  /\ lastScanItems = <<>>
  /\ scanProc = IdleScan
  /\ lookupProc = IdleLookup
  /\ applyProc = IdleBinder
  /\ tokenProc = IdleBinder
  /\ scanDone = <<>>
  /\ lookupDone = <<>>
  /\ lookupFirst = EmptyMap
  /\ applyDone = <<>>
  /\ tokenDone = <<>>

InitPlugin ==
  /\ InitHandlers
  /\ call = NoCall

Init ==
  /\ variables \in MainVariables
  /\ nodes \in MainNodes
  /\ selection = <<>>
  /\ edits = 0
  /\ commands = 0
  /\ InitPlugin

(***************************************************************************)
(* figma.ui.onmessage: one handler of each kind may be in flight; a handler *)
(* runs from one host call it awaits to the next without interruption       *)
(***************************************************************************)
\* Mutant for C4: only the entries of the unfiltered lists are dropped
CacheClearUnfiltered(cache) == [k \in {j \in DOMAIN cache : j[3]} |-> cache[k]]

\* variableListCacheMap.clear() (code.ts:508)
CacheClear(cache) == EmptyMap

\* A message arrives from the UI
Received == commands < MaxCommands /\ commands' = commands + 1

\* The trace of the run answered last, when it ran on the same items and nothing
\* outside the plugin has changed since it began
CleanPrevious(done, items) ==
  IF done # <<>> /\ ~done[1].dirty /\ done[1].items = items THEN done[1].trace ELSE <<>>

\* ----- scan (code.ts:499-540) -----
\* The scanUI message, with the request it answers, the exact index the scan used and
\* the items it found
ScanResponse(req, result) ==
  [request |-> req,
   replacedMatched |-> MatchedItems(lastScanItems) # <<>>,
   index |-> getCollectionColorMap(req.collectionName, req.mode, req.useGroupFilters),
   items |-> result.items,
   summary |-> [totalScanned |-> result.totalScanned,
                matchedUnique |-> Len(result.matchedColors),
                noMatchUnique |-> Cardinality(result.noMatchColors),
                noMatchItems |-> Cardinality({k \in 1..Len(result.items) :
                                                ~IsMatched(result.items[k])})],
   matchedColors |-> [k \in 1..Len(result.matchedColors) |->
                        [hex |-> result.matchedColors[k].hex,
                         variableId |-> result.matchedColors[k].variableId,
                         variableName |-> result.matchedColors[k].tokenName]],
   noMatchColors |-> result.noMatchColors,
   error |-> result.error]

\* if (!collectionName || !mode) { notify; return }
ScanRejected(req) ==
  /\ req.collectionName = <<>> \/ req.mode = <<>>
  /\ Received
  /\ UNCHANGED <<call, world, variableListCacheMap, lastScanItems, scanProc, lookupProc, applyProc,
                 tokenProc, scanDone, lookupDone, lookupFirst, applyDone, tokenDone>>

\* Mutant for C20: a scan that answers with an error keeps the retained items
ScanCompleteKeepOnError(req) ==
  LET result == runScan(req.collectionName, req.mode, req.useGroupFilters)
  IN  /\ lastScanItems' = IF result.error # Null THEN lastScanItems ELSE result.items
      /\ scanDone' = <<ScanResponse(req, result)>>
      /\ scanProc' = IdleScan

\* lastScanItems = result.items; postMessage(scanUI)
ScanComplete(req) ==
  LET result == runScan(req.collectionName, req.mode, req.useGroupFilters)
  IN  /\ lastScanItems' = result.items
      /\ scanDone' = <<ScanResponse(req, result)>>
      /\ scanProc' = IdleScan

\* The cache is cleared, runScan starts and issues its collection query
ScanStart(req) ==
  /\ scanProc.pc = "idle"
  /\ Received
  /\ req.collectionName # <<>> /\ req.mode # <<>>
  /\ variableListCacheMap' = CacheClear(variableListCacheMap)
  /\ lookupFirst' = EmptyMap
  /\ IF findVariableCollectionByName(req.collectionName).queried
     THEN /\ scanProc' = [pc |-> "running", collectionName |-> req.collectionName,
                          mode |-> req.mode, useGroupFilters |-> req.useGroupFilters,
                          cacheBefore |-> variableListCacheMap,
                          itemsBefore |-> lastScanItems]
          /\ UNCHANGED <<lastScanItems, scanDone>>
     ELSE ScanComplete(req)
  /\ UNCHANGED <<call, world, lookupProc, applyProc, tokenProc, lookupDone, applyDone, tokenDone>>

\* The catalog answers; the document is read and the result stored
ScanFinish ==
  /\ scanProc.pc = "running"
  /\ UNCHANGED commands
  /\ ScanComplete([collectionName |-> scanProc.collectionName, mode |-> scanProc.mode,
                   useGroupFilters |-> scanProc.useGroupFilters])
  /\ UNCHANGED <<call, world, variableListCacheMap, lookupFirst, lookupProc, applyProc, tokenProc,
                 lookupDone, applyDone, tokenDone>>

\* ----- getSuggestions (code.ts:543-573), getCandidatesForHex (code.ts:575-608) -----
LookupKey(req) == ListCacheKey(req.collectionName, req.mode, req.useGroupFilters)

LookupResponse(req, list, stored, queried, error) ==
  [kind |-> req.kind, key |-> LookupKey(req), raw |-> req.hex, hex |-> NormalizeHex(req.hex),
   list |-> list,
   candidates |-> IF error = Null
                  THEN computeCandidates(list, parseHexToRgb(NormalizeHex(req.hex)).rgb, CANDIDATE_LIMIT)
                  ELSE <<>>,
   error |-> error, queried |-> queried,
   first |-> LookupKey(req) \notin DOMAIN lookupFirst]

\* The list reaches the handler: it answers, and the first list per key is noted
LookupAnswer(req, list, stored, queried) ==
  /\ lookupDone' = <<LookupResponse(req, list, stored, queried, Null)>>
  /\ lookupFirst' = IF LookupKey(req) \in DOMAIN lookupFirst THEN lookupFirst
                    ELSE MapSet(lookupFirst, LookupKey(req), [list |-> list, stored |-> stored])
  /\ lookupProc' = IdleLookup

\* An unparsable hex: getSuggestions returns without a word, getCandidatesForHex
\* answers "Invalid HEX"
LookupInvalid(req) ==
  /\ lookupProc.pc = "idle"
  /\ Received
  /\ ~parseHexToRgb(NormalizeHex(req.hex)).ok
  /\ lookupDone' = IF req.kind = "getCandidatesForHex"
                   THEN <<LookupResponse(req, <<>>, FALSE, FALSE, "Invalid HEX")>>
                   ELSE lookupDone
  /\ UNCHANGED <<call, world, variableListCacheMap, lastScanItems, scanProc, lookupProc, applyProc,
                 tokenProc, scanDone, lookupFirst, applyDone, tokenDone>>

\* const cached = variableListCacheMap.get(key); if (cached) return cached
LookupHit(req) ==
  /\ lookupProc.pc = "idle"
  /\ Received
  /\ parseHexToRgb(NormalizeHex(req.hex)).ok
  /\ CacheHit(variableListCacheMap, LookupKey(req))
  /\ LookupAnswer(req, variableListCacheMap[LookupKey(req)], TRUE, FALSE)
  /\ UNCHANGED <<call, world, variableListCacheMap, lastScanItems, scanProc, applyProc, tokenProc,
                 scanDone, applyDone, tokenDone>>

\* A miss: the collection query goes out
LookupMiss(req) ==
  /\ lookupProc.pc = "idle"
  /\ Received
  /\ parseHexToRgb(NormalizeHex(req.hex)).ok
  /\ ~CacheHit(variableListCacheMap, LookupKey(req))
  /\ IF findVariableCollectionByName(req.collectionName).queried
     THEN /\ lookupProc' = [pc |-> "awaiting", kind |-> req.kind,
                            collectionName |-> req.collectionName, mode |-> req.mode,
                            useGroupFilters |-> req.useGroupFilters, hex |-> req.hex]
          /\ UNCHANGED <<lookupDone, lookupFirst>>
     ELSE LookupAnswer(req, <<>>, FALSE, FALSE)
  /\ UNCHANGED <<call, world, variableListCacheMap, lastScanItems, scanProc, applyProc, tokenProc,
                 scanDone, applyDone, tokenDone>>

\* The catalog answers: the list is built, stored when the collection and mode resolve
LookupFinish ==
  /\ lookupProc.pc = "awaiting"
  /\ UNCHANGED commands
  /\ LET req == lookupProc
         built == BuildVariableList(req.collectionName, req.mode, req.useGroupFilters)
     IN  /\ variableListCacheMap' =
              IF built.stored THEN MapSet(variableListCacheMap, LookupKey(req), built.list)
              ELSE variableListCacheMap
         /\ LookupAnswer(req, built.list, built.stored, built.queried)
  /\ UNCHANGED <<call, world, lastScanItems, scanProc, applyProc, tokenProc,
                 scanDone, applyDone, tokenDone>>

\* ----- apply (code.ts:650-668) -----
\* The applyResult / applyTokenToColorResult message, with the items it answers for,
\* what happened to each, and the trace of the clean run before it
Response(proc, result, trace, error) ==
  [items |-> proc.items, trace |-> trace, result |-> result, error |-> error,
   dirty |-> proc.dirty, prev |-> proc.prev, hex |-> proc.hex, variableId |-> proc.variableId]

\* The catch of the handler (code.ts:656-667, 615-625): zero counts and the message
CaughtResult(kind, message) ==
  [appliedCount |-> 0, skippedCount |-> 0, failedCount |-> 0,
   failedReasons |-> IF kind = "applyTokenToColor"
                     THEN <<[prefix |-> "", text |-> message, detail |-> <<>>]>>
                     ELSE <<>>]

ApplyStart ==
  /\ applyProc.pc = "idle"
  /\ Received
  /\ LET toApply == MatchedItems(lastScanItems)
         proc == [IdleBinder EXCEPT !.items = toApply,
                                    !.prev = CleanPrevious(applyDone, toApply)]
     IN  IF toApply = <<>>
         THEN /\ applyDone' = <<Response(proc, ZeroResult, <<>>, Null)>>
              /\ applyProc' = IdleBinder
         ELSE /\ applyProc' = [proc EXCEPT !.pc = "running"]
              /\ applyDone' = applyDone
  /\ UNCHANGED <<call, world, variableListCacheMap, lastScanItems, scanProc, lookupProc, tokenProc,
                 scanDone, lookupDone, lookupFirst, tokenDone>>

\* One turn of the loop, taken as one step: the variable and the node are fetched,
\* the slot is checked and bound (the check and the bind run without an await between)
ApplyStep(raised) ==
  /\ applyProc.pc = "running"
  /\ UNCHANGED commands
  /\ LET item == applyProc.items[applyProc.i]
         outcome == applyBindingsOutcome(item, raised)
         result == Tally(applyProc.result, outcome, applyBindingsReason(item, outcome, raised))
         trace == Append(applyProc.trace, outcome)
     IN  /\ nodes' = IF outcome = "applied" THEN BindSlot(nodes, item, item.matchVariableId)
                     ELSE nodes
         /\ IF ~LoopContinues(outcome)
            THEN /\ applyDone' = <<Response(applyProc, CaughtResult("apply", raised), trace, raised)>>
                 /\ applyProc' = IdleBinder
            ELSE IF applyProc.i = Len(applyProc.items)
            THEN /\ applyDone' = <<Response(applyProc, result, trace, Null)>>
                 /\ applyProc' = IdleBinder
            ELSE /\ applyProc' = [applyProc EXCEPT !.i = @ + 1, !.result = result,
                                                   !.trace = trace]
                 /\ applyDone' = applyDone
  /\ UNCHANGED <<call, variables, selection, edits, variableListCacheMap, lastScanItems, scanProc,
                 lookupProc, tokenProc, scanDone, lookupDone, lookupFirst, tokenDone>>

\* ----- applyTokenToColor (code.ts:610-627, 414-483) -----
TokenStart(req) ==
  /\ tokenProc.pc = "idle"
  /\ Received
  /\ LET items == ItemsToBind(lastScanItems, req.hex)
         proc == [IdleBinder EXCEPT !.hex = NormalizeHex(req.hex),
                                    !.variableId = req.variableId, !.items = items,
                                    !.prev = CleanPrevious(tokenDone, items)]
     IN  IF items = <<>>
         THEN /\ tokenDone' = <<Response(proc, ZeroResult, <<>>, Null)>>
              /\ tokenProc' = IdleBinder
         ELSE /\ tokenProc' = [proc EXCEPT !.pc = "awaitVariable"]
              /\ tokenDone' = tokenDone
  /\ UNCHANGED <<call, world, variableListCacheMap, lastScanItems, scanProc, lookupProc, applyProc,
                 scanDone, lookupDone, lookupFirst, applyDone>>

\* if (!variable) return { failedCount: itemsToBind.length, failedReasons: [one] }
TokenVariableMissing(proc) ==
  [appliedCount |-> 0, skippedCount |-> 0, failedCount |-> Len(proc.items),
   failedReasons |-> <<[prefix |-> "", text |-> "variableNotFound", detail |-> <<>>]>>]

\* The chosen variable is fetched, once for the batch
TokenVariable ==
  /\ tokenProc.pc = "awaitVariable"
  /\ UNCHANGED commands
  /\ IF ~variables[tokenProc.variableId].exists
     THEN /\ tokenDone' = <<Response(tokenProc, TokenVariableMissing(tokenProc), <<>>, Null)>>
          /\ tokenProc' = IdleBinder
     ELSE /\ tokenProc' = [tokenProc EXCEPT !.pc = "running"]
          /\ tokenDone' = tokenDone
  /\ UNCHANGED <<call, world, variableListCacheMap, lastScanItems, scanProc, lookupProc, applyProc,
                 scanDone, lookupDone, lookupFirst, applyDone>>

TokenStep(raised) ==
  /\ tokenProc.pc = "running"
  /\ UNCHANGED commands
  /\ LET item == tokenProc.items[tokenProc.i]
         outcome == applyTokenOutcome(item, raised)
         result == Tally(tokenProc.result, outcome, applyTokenReason(item, outcome, raised))
         trace == Append(tokenProc.trace, outcome)
     IN  /\ nodes' = IF outcome = "applied" THEN BindSlot(nodes, item, tokenProc.variableId)
                     ELSE nodes
         /\ IF ~LoopContinues(outcome)
            THEN /\ tokenDone' = <<Response(tokenProc,
                                           CaughtResult("applyTokenToColor", raised),
                                           trace, raised)>>
                 /\ tokenProc' = IdleBinder
            ELSE IF tokenProc.i = Len(tokenProc.items)
            THEN /\ tokenDone' = <<Response(tokenProc, result, trace, Null)>>
                 /\ tokenProc' = IdleBinder
            ELSE /\ tokenProc' = [tokenProc EXCEPT !.i = @ + 1, !.result = result,
                                                   !.trace = trace]
                 /\ tokenDone' = tokenDone
  /\ UNCHANGED <<call, variables, selection, edits, variableListCacheMap, lastScanItems, scanProc,
                 lookupProc, applyProc, scanDone, lookupDone, lookupFirst, applyDone>>

(***************************************************************************)
(* The user and other editors change the document and the catalog          *)
(***************************************************************************)
MarkDirty(done) == [k \in 1..Len(done) |-> [done[k] EXCEPT !.dirty = TRUE]]

Edited ==
  /\ edits < MaxEdits
  /\ edits' = edits + 1
  /\ applyProc' = [applyProc EXCEPT !.dirty = TRUE]
  /\ tokenProc' = [tokenProc EXCEPT !.dirty = TRUE]
  /\ applyDone' = MarkDirty(applyDone)
  /\ tokenDone' = MarkDirty(tokenDone)
  /\ UNCHANGED <<call, commands, variableListCacheMap, lastScanItems, scanProc, lookupProc,
                 scanDone, lookupDone, lookupFirst>>

Slots == {s \in NodeIds \X {"fills", "strokes"} :
            nodes[s[1]].exists /\ (IF s[2] = "fills" THEN nodes[s[1]].fills
                                   ELSE nodes[s[1]].strokes).kind = "array"}

SetList(ns, slot, list) ==
  IF slot[2] = "fills" THEN [ns EXCEPT ![slot[1]].fills = list]
  ELSE [ns EXCEPT ![slot[1]].strokes = list]

\* A paint is bound by hand, repainted, or turned into a gradient
ExtEditPaint(slot, paint) ==
  /\ slot \in Slots
  /\ nodes' = SetList(nodes, slot, PaintArray(<<paint>>))
  /\ nodes' # nodes
  /\ UNCHANGED <<variables, selection>>
  /\ Edited

\* The paints of a node are removed, or become mixed
ExtEditList(slot, kind) ==
  /\ slot \in Slots
  /\ nodes' = SetList(nodes, slot, IF kind = "array" THEN PaintArray(<<>>) ELSE NoPaints(kind))
  /\ UNCHANGED <<variables, selection>>
  /\ Edited

\* A node is deleted, with the nodes it holds
ExtRemoveNode(id) ==
  /\ nodes[id].exists
  /\ nodes' = [n \in NodeIds |->
                 IF n = id \/ n \in Range(Children(id))
                 THEN [nodes[n] EXCEPT !.exists = FALSE] ELSE nodes[n]]
  /\ selection' = SelectSeq2(selection, {n \in NodeIds : nodes'[n].exists})
  /\ UNCHANGED variables
  /\ Edited

ExtDeleteVariable(id) ==
  /\ variables[id].exists
  /\ variables' = [variables EXCEPT ![id].exists = FALSE]
  /\ UNCHANGED <<nodes, selection>>
  /\ Edited

ExtSelect(sel) ==
  /\ sel # selection
  /\ \A k \in 1..Len(sel) : nodes[sel[k]].exists
  /\ selection' = sel
  /\ UNCHANGED <<variables, nodes>>
  /\ Edited

\* The paints an editor puts in a slot: one bound by hand, and a gradient
EditPaints == {[SolidPaint(Blue, AlphaOne) EXCEPT !.bound = "v2"], GradientPaint}

\* The slots an editor touches: the second item of each handler's batch
EditSlots == {<<"n2", "fills">>, <<"n2", "strokes">>}

Selections == {<<>>, <<"n2">>, <<"n1", "n2">>}

\* The command handlers over the catalog: scans and candidate lookups interleave
Next ==
  \/ \E req \in MainScanRequests : ScanRejected(req)
  \/ \E req \in MainScanRequests : ScanStart(req)
  \/ ScanFinish
  \/ \E req \in MainLookupRequests : LookupInvalid(req)
  \/ \E req \in MainLookupRequests : LookupHit(req)
  \/ \E req \in MainLookupRequests : LookupMiss(req)
  \/ LookupFinish
  \/ \E id \in VarIds : ExtDeleteVariable(id)

Spec == Init /\ [][Next]_vars

\* The binding handlers over the document: a scan, then applies and edits interleave
ApplyScanRequests ==
  { [collectionName |-> NamePrimitive, mode |-> NameLight, useGroupFilters |-> u]
    : u \in {FALSE} }

NextApply ==
  \/ \E req \in ApplyScanRequests : ScanStart(req)
  \/ ScanFinish
  \/ ApplyStart
  \/ \E raised \in {Null} \cup BindErrors : ApplyStep(raised)
  \/ \E req \in MainTokenRequests : TokenStart(req)
  \/ TokenVariable
  \/ \E raised \in {Null} \cup BindErrors : TokenStep(raised)
  \/ \E slot \in EditSlots, paint \in EditPaints : ExtEditPaint(slot, paint)
  \/ \E slot \in EditSlots, kind \in {"array", "mixed"} : ExtEditList(slot, kind)
  \/ \E id \in NodeIds : ExtRemoveNode(id)
  \/ \E id \in VarIds : ExtDeleteVariable(id)

InitApply ==
  /\ variables \in MainVariables
  /\ nodes \in ApplyNodes
  /\ selection = <<>>
  /\ edits = 0
  /\ commands = 0
  /\ InitPlugin

SpecApply == InitApply /\ [][NextApply]_vars

\* The indexer over many catalogs: scans and lookups of one collection, no edits
IndexEntryValues == {ColorValue(Blue, AlphaOne), ColorValue(Blue, 996), ColorValue(NearBlue, AlphaOne)}

IndexVariables ==
  { [v \in VarIds |-> IF v = "v1" THEN Variable(n1, "COLOR", c1, AliasValue)
                      ELSE Variable(n2, "COLOR", c2, AliasValue)]
    : n1 \in {NameColorBlue, NameBlackInk, NameColorPadded},
      n2 \in {NameColorBlue, NameBlackInk, NameInk},
      c1 \in IndexEntryValues, c2 \in IndexEntryValues }

IndexNodes ==
  { [n \in NodeIds |->
       IF n = "n1"
       THEN Node(n, PaintArray(<<p>>), PaintArray(<<SolidPaint(Blue, 996)>>))
       ELSE Node(n, PaintArray(<<SolidPaint(Red, AlphaOne)>>), NoPaints("absent"))]
    : p \in {SolidPaint(Blue, AlphaOne), SolidPaint(Blue, 994), SolidPaint(Blue, Undefined),
             SolidPaint(NearBlue, AlphaOne)} }

InitIndex ==
  /\ variables \in IndexVariables
  /\ nodes \in IndexNodes
  /\ selection = <<>>
  /\ edits = 0
  /\ commands = 0
  /\ InitPlugin

IndexScanRequests ==
  { [collectionName |-> NamePrimitiveLoose, mode |-> NameLight, useGroupFilters |-> u]
    : u \in BOOLEAN }

IndexLookupRequests ==
  { [kind |-> "getCandidatesForHex", collectionName |-> NamePrimitive, mode |-> NameLight,
     useGroupFilters |-> TRUE, hex |-> HexRed] }

NextIndex ==
  \/ \E req \in IndexScanRequests : ScanStart(req)
  \/ ScanFinish
  \/ \E req \in IndexLookupRequests : LookupHit(req)
  \/ \E req \in IndexLookupRequests : LookupMiss(req)
  \/ LookupFinish

SpecIndex == InitIndex /\ [][NextIndex]_vars

\* Lookups with hex strings of every shape, on one catalog and one document
HexLookupStrings ==
  { HexRed, <<"#">> \o HexRed, <<"#", "#">> \o HexRed, <<" ">> \o HexRed,
    <<"0","0","0","0","a","F">>, <<"0","0","0","0","a","g">>, <<"g","0","0","0","0","a">>,
    <<"0","0","0","0","a">>, <<"0","0","0","0","a","0","0">>, <<>> }

HexLookupRequests ==
  { [kind |-> k, collectionName |-> NamePrimitive, mode |-> NameLight, useGroupFilters |-> FALSE,
     hex |-> h]
    : k \in {"getSuggestions", "getCandidatesForHex"}, h \in HexLookupStrings }

InitLookup ==
  /\ variables \in MainVariables
  /\ nodes \in ApplyNodes
  /\ selection = <<>>
  /\ edits = 0
  /\ commands = 0
  /\ InitPlugin

NextLookup ==
  \/ \E req \in HexLookupRequests : LookupInvalid(req)
  \/ \E req \in HexLookupRequests : LookupHit(req)
  \/ \E req \in HexLookupRequests : LookupMiss(req)
  \/ LookupFinish

SpecLookup == InitLookup /\ [][NextLookup]_vars

\* Scans of documents with every kind of slot, by collections that resolve to colour
\* entries or to none, each followed or not by apply.  One catalog has two entries of
\* one hex and two opacities; the other has no name under a group prefix.
ScanVariables ==
  { [v \in VarIds |->
       IF v = "v1" THEN Variable(n1, "COLOR", ColorValue(Blue, AlphaOne), AliasValue)
       ELSE Variable(n2, "COLOR", ColorValue(Blue, 500), AliasValue)]
    : <<n1, n2>> \in {<<NameColorBlue, NameBlackInk>>, <<NameInk, NameBare>>} }

BoundPaint == [SolidPaint(Blue, AlphaOne) EXCEPT !.bound = "v2"]

ScanNodes ==
  { [n \in NodeIds |-> IF n = "n1" THEN Node(n, f1, s1) ELSE Node(n, f2, s2)]
    : f1 \in {PaintArray(<<SolidPaint(Blue, 500)>>),
              PaintArray(<<GradientPaint, SolidPaint(Red, AlphaOne)>>), NoPaints("mixed")},
      s1 \in {PaintArray(<<SolidPaint(Blue, Undefined)>>), PaintArray(<<BoundPaint>>)},
      f2 \in {PaintArray(<<SolidPaint(Blue, AlphaOne)>>), NoPaints("mixed")},
      s2 \in {PaintArray(<<SolidPaint(Red, AlphaOne)>>), NoPaints("absent")} }

ScanRequests ==
  { [collectionName |-> q[1], mode |-> q[2], useGroupFilters |-> q[3]]
    : q \in { <<NamePrimitive, NameLight, FALSE>>, <<NamePrimitive, NameLight, TRUE>>,
              <<NamePrimitive, NameDark, FALSE>>, <<NameMissing, NameLight, FALSE>>,
              <<NameLib, NameLight, FALSE>>, <<NameBare, NameLight, FALSE>> } }

InitScan ==
  /\ variables \in ScanVariables
  /\ nodes \in ScanNodes
  /\ selection \in {<<>>, <<"n2">>}
  /\ edits = 0
  /\ commands = 0
  /\ InitPlugin

NextScan ==
  \/ \E req \in ScanRequests : ScanStart(req)
  \/ ScanFinish
  \/ ApplyStart
  \/ \E raised \in {Null} \cup BindErrors : ApplyStep(raised)

SpecScan == InitScan /\ [][NextScan]_vars

(***************************************************************************)
(* Calls of the pure functions of code.ts: the arguments are drawn, then   *)
(* the function runs on them and its result is kept                         *)
(***************************************************************************)
handlers == <<commands, variableListCacheMap, lastScanItems, scanProc, lookupProc, applyProc,
              tokenProc, scanDone, lookupDone, lookupFirst, applyDone, tokenDone>>

\* Alphas are drawn from both ends of the range, this many thousandths deep
AlphaSpan == 16

KeyAlphas == {Undefined} \cup (0..AlphaSpan) \cup ((AlphaOne - AlphaSpan)..AlphaOne)

KeyColors == {Blue, NearBlue}

\* Two colours with their alphas, for rgbOpacityKey
KeyInputs ==
  { [fn |-> "rgbOpacityKey", c1 |-> c1, a1 |-> a1, c2 |-> c2, a2 |-> a2,
     done |-> FALSE, result |-> <<>>]
    : c1 \in KeyColors, c2 \in KeyColors, a1 \in KeyAlphas, a2 \in KeyAlphas }

\* Hex strings are drawn up to this length
MaxHexLen == 6

HexAlphabet == {"0", "a", "F", "g"}

HexBodies == UNION { [1..n -> HexAlphabet] : n \in 0..MaxHexLen }

\* Strings with a sign, a 0x, blanks or a second '#', six characters long or longer
HexSpecials ==
  { <<"0","x","0","0","a","F">>, <<"-","0","0","0","0","a">>, <<"+","0","0","0","0","a">>,
    <<" ","0","0","0","0","a">>, <<" ","0","0","0","0","0","a">>,
    <<"0","0","0","0","0","a"," ">>, <<"#","#","0","0","0","0","0","a">>,
    <<"0","0","0","0","0","a","0">> }

HexInputs == HexBodies \cup { <<"#">> \o b : b \in HexBodies } \cup HexSpecials

\* A string for parseHexToRgb, and for rgbToHexStr when it parses
CodecInputs == { [fn |-> "parseHexToRgb", hex |-> h, done |-> FALSE, result |-> <<>>] : h \in HexInputs }

\* Candidate lists are drawn up to this length
MaxListLen == 3

ListEntry(id, name, rgb) ==
  [variableId |-> id, variableName |-> name, r |-> rgb[1], g |-> rgb[2], b |-> rgb[3]]

\* Entries as getCollectionVariableList returns them, with unique ids and names.
\* From black, e1 and e4 are equally far, e2 is within 1e-6 of e1 and e3 is within
\* 1e-6 of e2 but not of e1; e5 is black itself.
RankEntries ==
  { ListEntry("e1", <<"c">>, <<700, 0, 0>>), ListEntry("e2", <<"b">>, <<700, 1, 0>>),
    ListEntry("e3", <<"a">>, <<700, 1, 1>>), ListEntry("e4", <<"B">>, <<0, 700, 0>>),
    ListEntry("e5", <<"a", "b">>, <<0, 0, 0>>) }

RankLists ==
  UNION { { l \in [1..n -> RankEntries] : \A i \in 1..n, j \in 1..n : l[i] = l[j] => i = j }
          : n \in 0..MaxListLen }

\* A list one longer than the limit of the handlers, farthest from black first
LongList ==
  [k \in 1..(CANDIDATE_LIMIT + 1) |->
     ListEntry(HexDigits[k], <<"n", HexDigits[k]>>, <<0, 0, ChannelOne - 40 * k>>)]

RankInputs ==
  { [fn |-> "computeCandidates", list |-> l, target |-> t, limit |-> n,
     done |-> FALSE, result |-> <<>>]
    : l \in RankLists, t \in {<<0, 0, 0>>, Blue}, n \in 0..(MaxListLen + 1) }
  \cup
  { [fn |-> "computeCandidates", list |-> LongList, target |-> <<0, 0, 0>>, limit |-> n,
     done |-> FALSE, result |-> <<>>]
    : n \in {MaxListLen, CANDIDATE_LIMIT} }

PureInputs == KeyInputs \cup CodecInputs \cup RankInputs

RankApply ==
  /\ call.fn = "computeCandidates"
  /\ ~call.done
  /\ call' = [call EXCEPT !.done = TRUE,
                          !.result = computeCandidates(call.list, call.target, call.limit)]
  /\ UNCHANGED <<world, handlers>>

CodecApply ==
  /\ call.fn = "parseHexToRgb"
  /\ ~call.done
  /\ LET p == parseHexToRgb(call.hex)
     IN  call' = [call EXCEPT !.done = TRUE,
                             !.result = [ok |-> p.ok, rgb |-> p.rgb,
                                         hex |-> IF p.ok THEN rgbToHexStr(p.rgb[1], p.rgb[2], p.rgb[3])
                                                 ELSE <<>>]]
  /\ UNCHANGED <<world, handlers>>

KeyApply ==
  /\ call.fn = "rgbOpacityKey"
  /\ ~call.done
  /\ call' = [call EXCEPT !.done = TRUE,
                          !.result = <<rgbOpacityKey(call.c1[1], call.c1[2], call.c1[3], call.a1),
                                       rgbOpacityKey(call.c2[1], call.c2[2], call.c2[3], call.a2)>>]
  /\ UNCHANGED <<world, handlers>>

InitPure ==
  /\ variables \in {CHOOSE v \in MainVariables : TRUE}
  /\ nodes \in ApplyNodes
  /\ selection = <<>>
  /\ edits = 0
  /\ commands = 0
  /\ InitHandlers
  /\ call \in PureInputs

NextPure ==
  \/ KeyApply
  \/ CodecApply
  \/ RankApply

SpecPure == InitPure /\ [][NextPure]_vars


(***************************************************************************)
(* Properties of the binding handlers (checked under SpecApply, SpecSkip   *)
(* and SpecRaise)                                                          *)
(***************************************************************************)
\* The positions of a trace that hold a failure, in order
FailedAt(trace) == {i \in 1..Len(trace) : trace[i] \in FailedKinds}

\* The place of the i-th item's reason in failedReasons
ReasonIndex(trace, i) == Cardinality({j \in FailedAt(trace) : j <= i})

BinderResponses == Range(applyDone) \cup Range(tokenDone)

\* C1: when apply() answers for the same last scan result as the apply() before it,
\* with no external edit since that one began, every item the first run counted
\* Applied is counted Skipped (already bound) by the second, and when the first run
\* applied every item the second reports appliedCount = 0 and failedCount = 0.
C1_ApplyIdempotent ==
  \A r \in Range(applyDone) :
    (r.prev # <<>> /\ ~r.dirty /\ r.error = Null) =>
      /\ Len(r.trace) = Len(r.prev)
      /\ \A i \in 1..Len(r.prev) : r.prev[i] = "applied" => r.trace[i] = "skippedBound"
      /\ (\A i \in 1..Len(r.prev) : r.prev[i] = "applied") =>
            /\ r.result.appliedCount = 0
            /\ r.result.failedCount = 0
            /\ r.result.skippedCount = Len(r.items)

\* C1 witness: a second clean apply() over two items, of which the first run applied
\* at least one
C1_Witness ==
  \E r \in Range(applyDone) :
    /\ r.prev # <<>> /\ ~r.dirty /\ r.error = Null
    /\ Len(r.items) >= 2
    /\ \E i \in 1..Len(r.prev) : r.prev[i] = "applied" /\ r.trace[i] = "skippedBound"

\* C2 (as claimed): applyTokenToColor never reports Applied for a slot that the call
\* before it, for the same hex and items, already bound.
C2_TokenReverifiesBound ==
  \A r \in Range(tokenDone) :
    (r.prev # <<>> /\ ~r.dirty) =>
      \A i \in 1..Len(r.trace) : r.prev[i] = "applied" => r.trace[i] # "applied"

\* C7: when a bind raises for one item of apply() or applyTokenToColor(), the handler
\* does not end in its catch, every item of the batch has an outcome, the item is
\* counted Failed and its reason carries the raised message and the element's name.
C7_FailIsolation ==
  \A r \in BinderResponses :
    \A i \in 1..Len(r.trace) :
      r.trace[i] = "bindRaised" =>
        /\ r.error = Null
        /\ Len(r.trace) = Len(r.items)
        /\ r.result.appliedCount + r.result.skippedCount + r.result.failedCount = Len(r.items)
        /\ r.result.failedCount = Cardinality(FailedAt(r.trace))
        /\ Len(r.result.failedReasons) = Cardinality(FailedAt(r.trace))
        /\ r.result.failedReasons[ReasonIndex(r.trace, i)].text \in BindErrors
        /\ r.result.failedReasons[ReasonIndex(r.trace, i)].prefix = r.items[i].nodeName

\* C7 witness: both handlers have answered for a batch of two whose first bind raised
\* and whose second item was bound
C7_Witness ==
  /\ \E r \in Range(applyDone) :
        r.trace = <<"bindRaised", "applied">> /\ r.result.failedCount = 1
  /\ \E r \in Range(tokenDone) :
        r.trace = <<"bindRaised", "applied">> /\ r.result.failedCount = 1

\* C8 (as claimed): every result of apply() or applyTokenToColor() holds one reason
\* per failed item, each prefixed with the name of the element that owns the item.
C8_OneReasonPerFailure ==
  \A r \in BinderResponses :
    /\ Len(r.result.failedReasons) = r.result.failedCount
    /\ \A k \in 1..Len(r.result.failedReasons) :
         \E i \in 1..Len(r.items) : r.result.failedReasons[k].prefix = r.items[i].nodeName

\* What the apply handler has counted and traced so far, after a step
ApplyResultNext == IF applyProc'.pc = "idle" THEN applyDone'[1].result ELSE applyProc'.result
ApplyTraceNext == IF applyProc'.pc = "idle" THEN applyDone'[1].trace ELSE applyProc'.trace

\* The apply handler takes one turn of its loop
ApplyTurn ==
  /\ applyProc.pc = "running"
  /\ applyProc'.pc = "idle" \/ applyProc'.i = applyProc.i + 1

\* C9: a turn of apply() on an item whose variable or element no longer resolves
\* counts the item Failed, not Applied or Skipped, records one reason that names the
\* element, and changes no paint.
C9_EntityNotFound ==
  [][ (/\ ApplyTurn
       /\ \/ ~variables[applyProc.items[applyProc.i].matchVariableId].exists
          \/ ~nodes[applyProc.items[applyProc.i].nodeId].exists)
      => /\ nodes' = nodes
         /\ ApplyTraceNext[applyProc.i] \in {"variableNotFound", "nodeNotFound"}
         /\ ApplyResultNext.failedCount = applyProc.result.failedCount + 1
         /\ ApplyResultNext.appliedCount = applyProc.result.appliedCount
         /\ ApplyResultNext.skippedCount = applyProc.result.skippedCount
         /\ Len(ApplyResultNext.failedReasons) = Len(applyProc.result.failedReasons) + 1
         /\ ApplyResultNext.failedReasons[Len(ApplyResultNext.failedReasons)].prefix
              = applyProc.items[applyProc.i].nodeName
         /\ ApplyResultNext.failedReasons[Len(ApplyResultNext.failedReasons)].text
              \in {"variableNotFound", "nodeNotFound"} ]_vars

\* C9 witness: apply() has answered for a batch in which one item's element was gone
\* and another item was bound
C9_Witness ==
  \E r \in Range(applyDone) :
    /\ \E i \in 1..Len(r.trace) : r.trace[i] = "nodeNotFound"
    /\ \E i \in 1..Len(r.trace) : r.trace[i] = "applied"
    /\ r.result.failedCount = 1

\* C9 second case: apply() has answered for a batch whose variable was gone
C9_VariableGone ==
  \E r \in Range(applyDone) :
    /\ \A i \in 1..Len(r.trace) : r.trace[i] = "variableNotFound"
    /\ r.result.failedCount = Len(r.items) /\ r.items # <<>>

(***************************************************************************)
(* Properties of the scan state and the list cache (checked under Spec)    *)
(***************************************************************************)
\* C3 (as claimed): while a scan is outstanding and another command can run, the
\* cache and the last scan result are never a cleared cache together with the items
\* of the previous scan (items the outstanding scan is about to replace).
C3_AtomicReplacement ==
  scanProc.pc = "running" =>
    ~ /\ scanProc.cacheBefore # EmptyMap
      /\ variableListCacheMap = EmptyMap
      /\ scanProc.itemsBefore # <<>>
      /\ lastScanItems = scanProc.itemsBefore
      /\ lastScanItems # runScan(scanProc.collectionName, scanProc.mode,
                                 scanProc.useGroupFilters).items

\* C4: the step that takes up a scan request with a collection name and a mode leaves
\* the cache empty, whether the scan then waits for the catalog or not, and a step
\* that removes any entry of the cache removes them all.
C4_CacheClearedInFull ==
  [][ /\ (commands' # commands /\ scanProc.pc = "idle"
            /\ (scanProc'.pc = "running" \/ scanDone' # scanDone))
        => variableListCacheMap' = EmptyMap
      /\ (\E k \in DOMAIN variableListCacheMap : k \notin DOMAIN variableListCacheMap')
        => variableListCacheMap' = EmptyMap ]_vars

\* C4 witness: a scan waits for the catalog's answer to its first query; the cache held
\* two lists when the request came and is empty
C4_Witness ==
  /\ scanProc.pc = "running"
  /\ Cardinality(DOMAIN scanProc.cacheBefore) >= 2
  /\ variableListCacheMap = EmptyMap

\* C5 (as claimed): a lookup that is not the first with its key since the last scan
\* began returns the list the first one returned and queries nothing, for every key.
C5_CacheHitEveryKey ==
  \A r \in Range(lookupDone) :
    (r.error = Null /\ ~r.first /\ r.key \in DOMAIN lookupFirst) =>
      r.list = lookupFirst[r.key].list /\ ~r.queried

\* C5 (amended): the same, for the keys whose first lookup stored its list, that is,
\* whose collection resolved to a local collection with a mode; the list may be empty
C5_CacheHitStoredKey ==
  \A r \in Range(lookupDone) :
    (r.error = Null /\ ~r.first /\ r.key \in DOMAIN lookupFirst
       /\ lookupFirst[r.key].stored) =>
      r.list = lookupFirst[r.key].list /\ ~r.queried

\* C5 witness: a second lookup was answered from a stored empty list, with no query
C5_Witness ==
  \E r \in Range(lookupDone) :
    /\ r.error = Null /\ ~r.first /\ r.key \in DOMAIN lookupFirst
    /\ lookupFirst[r.key].stored
    /\ lookupFirst[r.key].list = <<>>
    /\ r.list = <<>> /\ ~r.queried

\* C5 second case: a second lookup was answered from a stored list that the catalog
\* no longer yields, a variable of it having been deleted since
C5_StaleHit ==
  \E r \in Range(lookupDone) :
    /\ r.error = Null /\ ~r.first /\ r.key \in DOMAIN lookupFirst
    /\ lookupFirst[r.key].stored
    /\ r.list # <<>>
    /\ \E k \in 1..Len(r.list) : ~variables[r.list[k].variableId].exists

(***************************************************************************)
(* Properties of the exact index and the scan (checked under SpecIndex)    *)
(***************************************************************************)
\* An alpha in thousandths rounded to two decimals, half up, as a count of 1/100
Round2(a) ==
  LET x == IF a = Undefined THEN AlphaOne ELSE a
  IN  CHOOSE h \in 0..100 : 10 * h - 5 <= x /\ x < 10 * h + 5

\* The value of a catalog variable in the mode a scan or lookup of Primitive resolves
ValueIn(variableId, mode) ==
  variables[variableId].valuesByMode[ResolveModeId(LocalCollections[1], mode)]

\* Two colour entries of the mode with one ExactKey: identical r, g, b and equal
\* rounded alpha
SameExactKey(e1, e2, mode) ==
  /\ ValueIn(e1, mode).kind = "color" /\ ValueIn(e2, mode).kind = "color"
  /\ ValueIn(e1, mode).r = ValueIn(e2, mode).r
  /\ ValueIn(e1, mode).g = ValueIn(e2, mode).g
  /\ ValueIn(e1, mode).b = ValueIn(e2, mode).b
  /\ Round2(ValueIn(e1, mode).a) = Round2(ValueIn(e2, mode).a)

\* e1 is named under the first-priority prefix and e2 under the second only
PriorityPair(e1, e2) ==
  /\ matchesPrefix(variables[e1].name, GROUP_FILTER_PREFIXES[1])
  /\ matchesPrefix(variables[e2].name, GROUP_FILTER_PREFIXES[2])

\* C6: with group filters on, when two colour entries share an ExactKey, one named
\* under the first-priority prefix and one under the second, the exact index of the
\* scan maps the key to the first-priority entry, whichever comes first in the
\* collection, and the candidate list of a lookup holds both.
C6_GroupFilterPriority ==
  \A e1 \in VarIds, e2 \in VarIds :
    /\ \A r \in Range(scanDone) :
         (r.request.useGroupFilters /\ PriorityPair(e1, e2)
            /\ SameExactKey(e1, e2, r.request.mode)) =>
           LET v == ValueIn(e1, r.request.mode)
               key == <<v.r, v.g, v.b, Round2(v.a)>>
           IN  /\ key \in DOMAIN r.index
               /\ r.index[key].variableId = e1
               /\ r.index[key].name = variables[e1].name
               /\ \A k \in DOMAIN r.index : r.index[k].variableId # e2
    /\ \A r \in Range(lookupDone) :
         (r.key[3] /\ r.error = Null /\ PriorityPair(e1, e2)
            /\ SameExactKey(e1, e2, r.key[2])) =>
           /\ \E k \in 1..Len(r.list) : r.list[k].variableId = e1
           /\ \E k \in 1..Len(r.list) : r.list[k].variableId = e2

\* C6 witness: the second-priority entry comes first in the collection and differs
\* from the first-priority one in its unrounded alpha; a filtered scan and a filtered
\* lookup have answered
C6_Witness ==
  /\ PriorityPair("v2", "v1")
  /\ SameExactKey("v2", "v1", NameLight)
  /\ ValueIn("v1", NameLight).a # ValueIn("v2", NameLight).a
  /\ \E r \in Range(scanDone) :
       /\ r.request.useGroupFilters
       /\ \E k \in DOMAIN r.index : r.index[k].variableId = "v2"
  /\ \E r \in Range(lookupDone) : r.key[3] /\ Len(r.list) = 2

\* The index entry under key k has the item's r, g, b and its rounded alpha
EntryMatchesItem(r, k, item) ==
  LET v == ValueIn(r.index[k].variableId, r.request.mode)
  IN  /\ <<v.r, v.g, v.b>> = item.currentColor
      /\ Round2(v.a) = Round2(item.opacity)

\* C10: an item of a scan is reported matched exactly when the index the scan built
\* holds an entry with the slot's r, g, b and with an alpha whose rounding to two
\* decimals equals that of the slot's opacity; the id and the name reported are
\* those of that index entry.
C10_ExactMatch ==
  \A r \in Range(scanDone) :
    \A i \in 1..Len(r.items) :
      LET item == r.items[i]
          hits == {k \in DOMAIN r.index : EntryMatchesItem(r, k, item)}
      IN  /\ IsMatched(item) <=> hits # {}
          /\ IsMatched(item) =>
               \A k \in hits : /\ item.matchVariableId = r.index[k].variableId
                               /\ item.matchVariableName = r.index[k].name
          /\ ~IsMatched(item) => item.matchVariableName = <<>>

\* C10 witness: one scan reports a slot matched to an entry whose unrounded alpha
\* differs from the slot's opacity, and a slot of the same r, g, b unmatched because
\* its opacity rounds to another value
C10_Witness ==
  \E r \in Range(scanDone) :
    /\ \E i \in 1..Len(r.items) :
         /\ IsMatched(r.items[i])
         /\ ValueIn(r.items[i].matchVariableId, r.request.mode).a # r.items[i].opacity
    /\ \E i \in 1..Len(r.items), k \in DOMAIN r.index :
         /\ ~IsMatched(r.items[i])
         /\ r.items[i].currentColor = <<k[1], k[2], k[3]>>

(***************************************************************************)
(* Properties of the pure functions (checked under SpecPure)               *)
(***************************************************************************)
KeyCalled == call.fn = "rgbOpacityKey" /\ call.done

AlphaOf(a) == IF a = Undefined THEN AlphaOne ELSE a

\* C11: the ExactKeys of two colours are equal exactly when their r, g, b are
\* identical and their alphas, each rounded on its own to two decimals (a missing
\* alpha counting as 1), round to the same value.
C11_ExactKeyEquality ==
  KeyCalled =>
    ((call.result[1] = call.result[2])
       <=> (call.c1 = call.c2 /\ Round2(call.a1) = Round2(call.a2)))

\* C11 witness: a missing alpha and a different alpha below 1 give one key
C11_Witness ==
  /\ KeyCalled
  /\ call.a1 = Undefined
  /\ call.a2 \notin {Undefined, AlphaOne}
  /\ call.result[1] = call.result[2]

C12_SplitPair ==
  /\ KeyCalled
  /\ call.c1 = call.c2
  /\ call.a1 = 994
  /\ call.a2 = 996
  /\ call.result[1] # call.result[2]

CodecCalled == call.fn = "parseHexToRgb" /\ call.done

HexChars == {"0","1","2","3","4","5","6","7","8","9","a","b","c","d","e","f",
             "A","B","C","D","E","F"}

UpperHex == {"A","B","C","D","E","F"}

\* Exactly six hex digits of either case
WellFormedHex(h) == Len(h) = 6 /\ \A k \in 1..6 : h[k] \in HexChars

\* C13 as stated: for every well-formed 6-digit hex string h (digits 0-9, a-f,
\* A-F), rgbToHexStr(parseHexToRgb(h)) = h.
C13_RoundTrip ==
  CodecCalled /\ WellFormedHex(call.hex) => call.result.ok /\ call.result.hex = call.hex

\* C13 amended: for every well-formed 6-digit hex string h, parseHexToRgb(h) is a
\* colour and rgbToHexStr of it is h with its letters in lower case: h itself when
\* h has no upper-case digit.
C13_RoundTripLowerCase ==
  CodecCalled /\ WellFormedHex(call.hex)
    => /\ call.result.ok
       /\ call.result.hex = toLowerCase(call.hex)
       /\ (\A k \in 1..6 : call.hex[k] \notin UpperHex) => call.result.hex = call.hex

\* C13 witness: a well-formed string with an upper-case digit comes back in lower case
C13_Witness ==
  /\ CodecCalled
  /\ WellFormedHex(call.hex)
  /\ \E k \in 1..6 : call.hex[k] \in UpperHex
  /\ call.result.ok
  /\ call.result.hex = toLowerCase(call.hex)
  /\ call.result.hex # call.hex

RankCalled == call.fn = "computeCandidates" /\ call.done

\* The entry of the list that a candidate of the result came from
EntryOfCandidate(c) == CHOOSE e \in Range(call.list) : e.variableId = c.variableId

\* The squared distance of the k-th candidate of the result from the target
ResultDistance(k) ==
  LET e == EntryOfCandidate(call.result[k])
  IN  (call.target[1] - e.r) * (call.target[1] - e.r)
      + (call.target[2] - e.g) * (call.target[2] - e.g)
      + (call.target[3] - e.b) * (call.target[3] - e.b)

\* Names in lexicographic order of their characters' codes: blank, '/', digits,
\* upper case, lower case
CodeOrder == <<" ", "/", "0","1","2","3","4","5","6","7","8","9">> \o UpperChars \o LowerChars

CodeOf == [c \in Range(CodeOrder) |-> CHOOSE i \in 1..Len(CodeOrder) : CodeOrder[i] = c]

RECURSIVE LexLeq(_, _)
LexLeq(a, b) ==
  IF a = <<>> THEN TRUE
  ELSE IF b = <<>> THEN FALSE
  ELSE IF Head(a) = Head(b) THEN LexLeq(Tail(a), Tail(b))
  ELSE CodeOf[Head(a)] < CodeOf[Head(b)]

C15_FartherFirst ==
  /\ RankCalled
  /\ \E i \in 1..Len(call.result), j \in 1..Len(call.result) :
       /\ i < j
       /\ ResultDistance(i) > ResultDistance(j)
       /\ ~DistanceTie(ResultDistance(i), ResultDistance(j))

\* C15: two tied candidates come out with the lower-case name before the upper-case
\* one, against the order of their character codes
C15_CaseOrder ==
  /\ RankCalled
  /\ \E k \in 1..(Len(call.result) - 1) :
       /\ DistanceTie(ResultDistance(k), ResultDistance(k + 1))
       /\ ~LexLeq(call.result[k].variableName, call.result[k + 1].variableName)

\* The list in another order
Permuted(list, p) == [k \in 1..Len(list) |-> list[p[k]]]

\* C16: for two permutations of one candidate list, with the same target and limit,
\* computeCandidates returns the same sequence.
C16_RankerReproducible ==
  RankCalled /\ Len(call.list) <= MaxListLen + 1 =>
    \A p \in Permutations(1..Len(call.list)) :
      computeCandidates(Permuted(call.list, p), call.target, call.limit) = call.result

\* C16: a list of three entries, each within 1e-6 of the next, is ranked in two ways
C16_OrderDependent ==
  /\ RankCalled
  /\ Len(call.list) = 3
  /\ call.limit >= 3
  /\ \E p \in Permutations(1..3) :
       computeCandidates(Permuted(call.list, p), call.target, call.limit) # call.result

Min(a, b) == IF a < b THEN a ELSE b

\* C17: computeCandidates returns min(limit, number of candidates) candidates, as
\* do getSuggestions and getCandidatesForHex with their limit of 12, however far
\* the candidates are from the target.
C17_RankerLength ==
  RankCalled => Len(call.result) = Min(call.limit, Len(call.list))

\* C17 witness: thirteen candidates and the limit of 12 give twelve, the nearest
\* first and the farthest left out
C17_Witness ==
  /\ RankCalled
  /\ call.limit = CANDIDATE_LIMIT
  /\ Len(call.list) = CANDIDATE_LIMIT + 1
  /\ Len(call.result) = CANDIDATE_LIMIT
  /\ call.result[1].variableId = call.list[Len(call.list)].variableId
  /\ \A k \in 1..Len(call.result) : call.result[k].variableId # call.list[1].variableId

(***************************************************************************)
(* Properties of the lookups by hex (checked under SpecLookup)             *)
(***************************************************************************)
\* The string left when one leading '#', if there is one, is dropped
StripHash(h) == IF h # <<>> /\ Head(h) = "#" THEN Tail(h) ELSE h

\* C14: for every hex string that, one optional leading '#' stripped, is not exactly
\* six hex digits (wrong length, or six long with a character that is no hex digit
\* at any place), getCandidatesForHex answers with no candidates and an error
\* string (parseHexToRgb having returned none).
C14_InvalidHexRejected ==
  \A k \in 1..Len(lookupDone) :
    lookupDone[k].kind = "getCandidatesForHex" /\ ~WellFormedHex(StripHash(lookupDone[k].raw))
      => lookupDone[k].candidates = <<>> /\ lookupDone[k].error # Null

\* C14: a string of six characters whose last one is no hex digit is answered with
\* candidates and no error
C14_TrailingJunkAccepted ==
  \E k \in 1..Len(lookupDone) :
    /\ lookupDone[k].kind = "getCandidatesForHex"
    /\ lookupDone[k].raw = <<"0","0","0","0","a","g">>
    /\ lookupDone[k].candidates # <<>>
    /\ lookupDone[k].error = Null

(***************************************************************************)
(* Properties of the scan (checked under SpecScan)                         *)
(***************************************************************************)
\* The paints of a slot of the document, none when the slot holds no list
PaintsOf(id, property) ==
  LET list == IF property = "fills" THEN nodes[id].fills ELSE nodes[id].strokes
  IN  IF list.kind = "array" THEN list.paints ELSE <<>>

\* The elements the scan walks: the page, or the selected nodes with what they hold
Traversed ==
  { n \in NodeIds :
      /\ nodes[n].exists
      /\ \/ selection = <<>>
         \/ \E k \in 1..Len(selection) : n = selection[k] \/ n \in Range(Children(selection[k])) }

\* The i-th paint of the slot is solid and bound to no variable
Eligible(id, property, i) ==
  /\ i \in 1..Len(PaintsOf(id, property))
  /\ PaintsOf(id, property)[i].type = "SOLID"
  /\ PaintsOf(id, property)[i].bound = Null

\* No apply has touched the document since the scans answered
DocumentAsScanned == applyDone = <<>> /\ applyProc.pc = "idle"

\* C18: every item of a scan is a fill or stroke slot that holds a solid paint bound
\* to no variable; every solid, unbound fill or stroke slot of every traversed
\* element yields exactly one item; a gradient, image or bound slot yields no item
\* and no no-match entry.
C18_ScanEligibility ==
  DocumentAsScanned =>
    \A r \in Range(scanDone) :
      r.error = Null =>
        /\ \A k \in 1..Len(r.items) :
             Eligible(r.items[k].nodeId, r.items[k].property, r.items[k].index + 1)
        /\ \A n \in Traversed, property \in {"fills", "strokes"} :
             \A i \in 1..Len(PaintsOf(n, property)) :
               Eligible(n, property, i)
                 => Cardinality({ k \in 1..Len(r.items) :
                                    /\ r.items[k].nodeId = n
                                    /\ r.items[k].property = property
                                    /\ r.items[k].index = i - 1 }) = 1
        /\ \A h \in r.noMatchColors :
             \E k \in 1..Len(r.items) : ~IsMatched(r.items[k]) /\ ItemHex(r.items[k]) = h

\* C18: a walked node whose fills are mixed has a solid unbound stroke, and the scan
\* has no item for it
C18_StrokeOfMixedFillsMissed ==
  /\ DocumentAsScanned
  /\ \E r \in Range(scanDone), n \in Traversed :
       /\ r.error = Null
       /\ nodes[n].fills.kind = "mixed"
       /\ Eligible(n, "strokes", 1)
       /\ \A k \in 1..Len(r.items) : r.items[k].nodeId # n

\* The matched items of a response with a hex, by their place in the items
MatchedAt(r, hex) ==
  { k \in 1..Len(r.items) : IsMatched(r.items[k]) /\ ItemHex(r.items[k]) = hex }

\* C19: matchedColors has exactly one entry for each hex that has a matched item,
\* and none for another hex; its name and id are those of the first matched item
\* with that hex in the order of the walk, also when a later item with that hex
\* matched another variable.
C19_MatchedColorsFirstWins ==
  \A r \in Range(scanDone) :
    /\ \A k \in 1..Len(r.items) :
         IsMatched(r.items[k])
           => Cardinality({ j \in 1..Len(r.matchedColors) :
                              r.matchedColors[j].hex = ItemHex(r.items[k]) }) = 1
    /\ \A j \in 1..Len(r.matchedColors) :
         /\ MatchedAt(r, r.matchedColors[j].hex) # {}
         /\ LET first == CHOOSE k \in MatchedAt(r, r.matchedColors[j].hex) :
                           \A m \in MatchedAt(r, r.matchedColors[j].hex) : k <= m
            IN  /\ r.matchedColors[j].variableId = r.items[first].matchVariableId
                /\ r.matchedColors[j].variableName = r.items[first].matchVariableName

\* C19 witness: two items of one hex matched two variables, by their opacity, and
\* the entry of that hex names the variable of the first
C19_Witness ==
  \E r \in Range(scanDone) :
    \E k \in 1..Len(r.items), m \in 1..Len(r.items), j \in 1..Len(r.matchedColors) :
      /\ k < m
      /\ IsMatched(r.items[k]) /\ IsMatched(r.items[m])
      /\ ItemHex(r.items[k]) = ItemHex(r.items[m])
      /\ r.items[k].opacity # r.items[m].opacity
      /\ r.items[k].matchVariableId # r.items[m].matchVariableId
      /\ \A i \in 1..(k - 1) : ~IsMatched(r.items[i])
      /\ r.matchedColors[j].hex = ItemHex(r.items[k])
      /\ r.matchedColors[j].variableId = r.items[k].matchVariableId

\* The scan answered last found no colour entry in its catalog, and no scan runs
EmptyCatalogScanLast ==
  /\ scanProc.pc = "idle"
  /\ scanDone # <<>>
  /\ DOMAIN scanDone[1].index = {}

\* C20: a scan whose catalog resolves to no colour entry answers with no items,
\* totalScanned 0 and an error, and replaces the retained items by none; an apply
\* that comes after it answers at once with all counts 0 and binds nothing,
\* whatever the scan before had matched.
C20_EmptyCatalogScan ==
  /\ [](\A r \in Range(scanDone) :
          DOMAIN r.index = {}
            => /\ r.items = <<>>
               /\ r.summary.totalScanned = 0
               /\ r.matchedColors = <<>>
               /\ r.error # Null)
  /\ [](EmptyCatalogScanLast => lastScanItems = <<>>)
  /\ [][EmptyCatalogScanLast /\ applyProc.pc = "idle" /\ commands' # commands
          /\ applyDone' # applyDone
          => /\ applyDone'[1].result = ZeroResult
             /\ applyDone'[1].error = Null
             /\ applyProc'.pc = "idle"
             /\ nodes' = nodes]_vars

\* C20 witness: the empty scan replaced matched items, and the apply after it
\* answered with all counts 0 while a solid slot is still unbound
C20_Witness ==
  /\ EmptyCatalogScanLast
  /\ scanDone[1].replacedMatched
  /\ lastScanItems = <<>>
  /\ applyDone # <<>>
  /\ applyDone[1].items = <<>>
  /\ applyDone[1].result = ZeroResult
  /\ \E n \in Traversed, property \in {"fills", "strokes"} : Eligible(n, property, 1)

(***************************************************************************)
(* Properties of the command protocol (checked under Spec)                 *)
(***************************************************************************)
\* Some handler waits for the host
HandlerInFlight ==
  \/ scanProc.pc # "idle"
  \/ lookupProc.pc # "idle"
  \/ applyProc.pc # "idle"
  \/ tokenProc.pc # "idle"

\* No response has been posted yet
NoResponseYet == scanDone = <<>> /\ lookupDone = <<>> /\ applyDone = <<>> /\ tokenDone = <<>>

\* C21: every command, also one with missing or malformed fields, gets exactly one
\* response and none is dropped silently.  Stated for the first command the plugin
\* receives, where a posted response cannot be mistaken for an earlier one: the
\* step that takes it up posts a response or leaves a handler waiting for the host.
C21_OneResponsePerRequest ==
  [][ commands = 0 /\ commands' = 1 /\ NoResponseYet
        => HandlerInFlight' \/ ~NoResponseYet' ]_vars

\* C21: a command has been received, no handler is in flight and nothing was posted
C21_RequestDropped ==
  /\ commands = 1
  /\ ~HandlerInFlight
  /\ NoResponseYet

(***************************************************************************)
(* The binding handlers over a document whose lists hold several paints,   *)
(* with lookups that may reject and slots that are repainted between the   *)
(* scan and the apply                                                      *)
(***************************************************************************)
\* The catalog: one blue entry and one half-transparent red entry
BindVariables ==
  { [v \in VarIds |->
       IF v = "v1"
       THEN Variable(NameColorBlue, "COLOR", ColorValue(Blue, AlphaOne), AliasValue)
       ELSE Variable(NameBlackInk, "COLOR", ColorValue(Red, 500), AliasValue)] }

\* The document: the frame has a matched and an unmatched fill of one hex and an
\* unmatched stroke; the label has a matched fill and an unmatched stroke of that hex
BindNodes ==
  { [n \in NodeIds |->
       IF n = "n1"
       THEN Node(n, PaintArray(<<SolidPaint(Blue, AlphaOne), SolidPaint(Blue, 500)>>),
                 PaintArray(<<SolidPaint(Red, Undefined)>>))
       ELSE Node(n, PaintArray(<<SolidPaint(Blue, AlphaOne)>>),
                 PaintArray(<<SolidPaint(Blue, 500)>>))] }

HexBlue == rgbToHexStr(Blue[1], Blue[2], Blue[3])

BindTokenRequests == { [hex |-> <<"#">> \o HexBlue, variableId |-> "v2"] }

\* The message a rejected getVariableByIdAsync or getNodeByIdAsync carries
LookupErrors == {"lookupRejected"}

\* await getVariableByIdAsync / getNodeByIdAsync of the loop of applyBindingsToItems
\* rejects (code.ts:341, 347): neither await is inside a try of the loop, so the
\* rejection reaches the catch of the handler (code.ts:656-667)
ApplyLookupRaised(raised) ==
  /\ applyProc.pc = "running"
  /\ UNCHANGED commands
  /\ applyDone' = <<Response(applyProc, CaughtResult("apply", raised),
                             Append(applyProc.trace, "lookupRaised"), raised)>>
  /\ applyProc' = IdleBinder
  /\ UNCHANGED <<call, world, variableListCacheMap, lastScanItems, scanProc, lookupProc,
                 tokenProc, scanDone, lookupDone, lookupFirst, tokenDone>>

\* await getVariableByIdAsync before the loop of applyTokenToColor, or
\* getNodeByIdAsync in it, rejects (code.ts:423, 428); the handler catches
\* (code.ts:615-625)
TokenLookupRaised(raised) ==
  /\ tokenProc.pc \in {"awaitVariable", "running"}
  /\ UNCHANGED commands
  /\ tokenDone' = <<Response(tokenProc, CaughtResult("applyTokenToColor", raised),
                             Append(tokenProc.trace, "lookupRaised"), raised)>>
  /\ tokenProc' = IdleBinder
  /\ UNCHANGED <<call, world, variableListCacheMap, lastScanItems, scanProc, lookupProc,
                 applyProc, scanDone, lookupDone, lookupFirst, applyDone>>

\* The paint an editor puts in a slot after the scan: another colour, still solid
\* and unbound
DriftPaints == {SolidPaint(Red, AlphaOne)}

\* The list an editor repaints: the fills of the label
DriftSlots == {<<"n2", "fills">>}

InitBind ==
  /\ variables \in BindVariables
  /\ nodes \in BindNodes
  /\ selection = <<>>
  /\ edits = 0
  /\ commands = 0
  /\ InitPlugin

NextBind ==
  \/ \E req \in ApplyScanRequests : ScanStart(req)
  \/ ScanFinish
  \/ ApplyStart
  \/ \E raised \in {Null} \cup BindErrors : ApplyStep(raised)
  \/ \E raised \in LookupErrors : ApplyLookupRaised(raised)
  \/ \E req \in BindTokenRequests : TokenStart(req)
  \/ TokenVariable
  \/ \E raised \in {Null} \cup BindErrors : TokenStep(raised)
  \/ \E raised \in LookupErrors : TokenLookupRaised(raised)
  \/ \E slot \in DriftSlots, paint \in DriftPaints : ExtEditPaint(slot, paint)

SpecBind == InitBind /\ [][NextBind]_vars

\* The apply handler alone over the document of the binding handlers: a scan, then
\* applies interleave with edits that make a slot ineligible or remove an element
\* or a variable
NextSkip ==
  \/ \E req \in ApplyScanRequests : ScanStart(req)
  \/ ScanFinish
  \/ ApplyStart
  \/ \E raised \in {Null} \cup BindErrors : ApplyStep(raised)
  \/ \E slot \in EditSlots, paint \in EditPaints : ExtEditPaint(slot, paint)
  \/ \E slot \in EditSlots, kind \in {"array", "mixed"} : ExtEditList(slot, kind)
  \/ \E id \in NodeIds : ExtRemoveNode(id)
  \/ \E id \in VarIds : ExtDeleteVariable(id)

SpecSkip == InitApply /\ [][NextSkip]_vars

\* The two binding handlers over that document with binds that raise: a scan, then
\* apply and applyTokenToColor interleave with each other and with repaints
NextRaise ==
  \/ \E req \in ApplyScanRequests : ScanStart(req)
  \/ ScanFinish
  \/ ApplyStart
  \/ \E raised \in {Null} \cup BindErrors : ApplyStep(raised)
  \/ \E req \in MainTokenRequests : TokenStart(req)
  \/ TokenVariable
  \/ \E raised \in {Null} \cup BindErrors : TokenStep(raised)
  \/ \E slot \in EditSlots, paint \in EditPaints : ExtEditPaint(slot, paint)

SpecRaise == InitApply /\ [][NextRaise]_vars

(***************************************************************************)
(* Properties of the binding handlers (checked under SpecBind)             *)
(***************************************************************************)
\* node.fills or node.strokes in a document
PaintList(ns, n, property) == IF property = "fills" THEN ns[n].fills ELSE ns[n].strokes

\* What the applyTokenToColor handler has traced so far, after a step
TokenTraceNext == IF tokenProc'.pc = "idle" THEN tokenDone'[1].trace ELSE tokenProc'.trace

\* The step is a turn of the loop of apply() that counts its item Applied, and the
\* item is paint k of the list: an item with a match
ApplyBinds(n, property, k) ==
  /\ ApplyTurn
  /\ ApplyTraceNext[applyProc.i] = "applied"
  /\ LET item == applyProc.items[applyProc.i]
     IN  /\ item.nodeId = n /\ item.property = property /\ item.index = k - 1
         /\ item.matchVariableId # Null

\* The same for applyTokenToColor(): an item without a match whose hex is the given
\* hex without its '#'
TokenBinds(n, property, k) ==
  /\ tokenProc.pc = "running"
  /\ tokenProc'.pc = "idle" \/ tokenProc'.i = tokenProc.i + 1
  /\ TokenTraceNext[tokenProc.i] = "applied"
  /\ LET item == tokenProc.items[tokenProc.i]
     IN  /\ item.nodeId = n /\ item.property = property /\ item.index = k - 1
         /\ item.matchVariableId = Null
         /\ ItemHex(item) = tokenProc.hex

\* C22: the batch of apply() holds only items of the last scan result with a match,
\* that of applyTokenToColor(hex, id) only items of it without a match whose hex is
\* the given hex without '#'; a step of the plugin changes a paint only when it is a
\* turn that counts an item of the batch Applied and the paint is that item's slot;
\* every other paint, the slots of items counted Skipped or Failed included, stays
\* as it is, and every list keeps its length.
C22_ApplyTargets ==
  [][ edits' = edits =>
        /\ applyProc.pc = "idle" /\ applyProc'.pc = "running" =>
             \A i \in 1..Len(applyProc'.items) :
               /\ applyProc'.items[i] \in Range(lastScanItems)
               /\ applyProc'.items[i].matchVariableId # Null
        /\ tokenProc.pc = "idle" /\ tokenProc'.pc # "idle" =>
             \A i \in 1..Len(tokenProc'.items) :
               /\ tokenProc'.items[i] \in Range(lastScanItems)
               /\ tokenProc'.items[i].matchVariableId = Null
               /\ <<"#">> \o ItemHex(tokenProc'.items[i]) \in
                    {req.hex : req \in BindTokenRequests}
               /\ ItemHex(tokenProc'.items[i]) = tokenProc'.hex
        /\ applyProc.pc # "idle" /\ applyProc'.pc # "idle" => applyProc'.items = applyProc.items
        /\ tokenProc.pc # "idle" /\ tokenProc'.pc # "idle" => tokenProc'.items = tokenProc.items
        /\ \A n \in NodeIds, property \in {"fills", "strokes"} :
             LET old == PaintList(nodes, n, property)
                 new == PaintList(nodes', n, property)
             IN  /\ nodes'[n].exists = nodes[n].exists
                 /\ new.kind = old.kind
                 /\ Len(new.paints) = Len(old.paints)
                 /\ \A k \in 1..Len(old.paints) :
                      new.paints[k] # old.paints[k] =>
                        ApplyBinds(n, property, k) \/ TokenBinds(n, property, k) ]_vars

\* C22 witness: apply() has bound both matched fills and applyTokenToColor() an
\* unmatched slot of its hex; the frame's second fill kept its place in the list and
\* the red stroke, of another hex, is as it was
C22_Witness ==
  /\ \E r \in Range(applyDone) : r.trace = <<"applied", "applied">>
  /\ \E r \in Range(tokenDone) : r.trace = <<"applied", "applied">>
  /\ nodes["n1"].fills.paints =
       <<[SolidPaint(Blue, AlphaOne) EXCEPT !.bound = "v1"],
         [SolidPaint(Blue, 500) EXCEPT !.bound = "v2"]>>
  /\ nodes["n1"].strokes.paints = <<SolidPaint(Red, Undefined)>>

(***************************************************************************)
(* Ineligible slots at apply time (checked under SpecSkip)                 *)
(***************************************************************************)
\* The slot of the item, on an element that resolves: its list is gone or mixed, it
\* has no paint at the item's index, the paint is not solid, or it carries a variable
IneligibleSlot(item) ==
  /\ variables[item.matchVariableId].exists
  /\ nodes[item.nodeId].exists
  /\ \/ SlotList(item).kind # "array"
     \/ item.index + 1 > Len(SlotList(item).paints)
     \/ SlotList(item).paints[item.index + 1].type # "SOLID"
     \/ SlotList(item).paints[item.index + 1].bound # Null

\* C23: a turn of apply() on a matched item whose variable and element resolve and
\* whose slot no longer exists, no longer holds a solid paint or already carries a
\* variable counts the item Skipped, not Failed, adds no reason and binds nothing,
\* whether or not a bind would have raised.
C23_IneligibleSkipped ==
  [][ ApplyTurn /\ IneligibleSlot(applyProc.items[applyProc.i])
      => /\ nodes' = nodes
         /\ ApplyTraceNext[applyProc.i] \in SkippedKinds
         /\ ApplyResultNext.skippedCount = applyProc.result.skippedCount + 1
         /\ ApplyResultNext.failedCount = applyProc.result.failedCount
         /\ ApplyResultNext.appliedCount = applyProc.result.appliedCount
         /\ ApplyResultNext.failedReasons = applyProc.result.failedReasons ]_vars

\* C23 witness: apply() has answered for a batch whose second slot had become a
\* gradient after the scan; the item is counted Skipped and there is no reason
C23_Witness ==
  /\ \E r \in Range(applyDone) :
        /\ r.trace = <<"applied", "skippedNotSolid">>
        /\ r.result.skippedCount = 1 /\ r.result.failedReasons = <<>>
  /\ nodes["n2"].fills.kind = "array"
  /\ nodes["n2"].fills.paints = <<GradientPaint>>

(***************************************************************************)
(* Collisions of the exact index (checked under SpecIndex)                 *)
(***************************************************************************)
\* The place of an entry in the variableIds of the collection the scans resolve
CollectionOrder == LocalCollections[1].variableIds
PlaceOf(e) == CHOOSE i \in 1..Len(CollectionOrder) : CollectionOrder[i] = e

\* The colour entries of the mode whose r, g, b and rounded alpha make the key
EntriesWithKey(key, mode) ==
  { e \in VarIds :
      /\ variables[e].exists /\ variables[e].resolvedType = "COLOR"
      /\ ValueIn(e, mode).kind = "color"
      /\ <<ValueIn(e, mode).r, ValueIn(e, mode).g, ValueIn(e, mode).b,
           Round2(ValueIn(e, mode).a)>> = key }

KeysOf(mode) ==
  { <<ValueIn(e, mode).r, ValueIn(e, mode).g, ValueIn(e, mode).b, Round2(ValueIn(e, mode).a)>>
    : e \in {x \in VarIds : ValueIn(x, mode).kind = "color"} }

UnderPrefix(e, i) == matchesPrefix(variables[e].name, GROUP_FILTER_PREFIXES[i])

\* C24: without a group filter, the exact index of a scan maps every key that
\* several colour entries share to the one that comes last in the collection; with
\* the filter, of the entries under one prefix that share a key a later one is
\* never kept, and the first one is kept unless a prefix of higher priority has an
\* entry with that key.
C24_CollisionPolicy ==
  \A r \in Range(scanDone) :
    \A key \in KeysOf(r.request.mode) :
      LET sharing == EntriesWithKey(key, r.request.mode)
      IN  IF ~r.request.useGroupFilters
          THEN /\ key \in DOMAIN r.index
               /\ \A e \in sharing : PlaceOf(e) <= PlaceOf(r.index[key].variableId)
               /\ r.index[key].variableId \in sharing
          ELSE \A i \in 1..Len(GROUP_FILTER_PREFIXES) :
                 LET under == {e \in sharing : UnderPrefix(e, i)}
                     higher == {e \in sharing : \E j \in 1..(i - 1) : UnderPrefix(e, j)}
                 IN  \A e \in under :
                       IF \E f \in under : PlaceOf(f) < PlaceOf(e)
                       THEN \A k \in DOMAIN r.index : r.index[k].variableId # e
                       ELSE higher = {} =>
                              key \in DOMAIN r.index /\ r.index[key].variableId = e

\* C24 witness: two entries under one prefix share a key and differ in unrounded
\* alpha; a scan without the filter has mapped the key to the later one
C24_Witness ==
  /\ SameExactKey("v1", "v2", NameLight)
  /\ ValueIn("v1", NameLight).a # ValueIn("v2", NameLight).a
  /\ UnderPrefix("v1", 1) /\ UnderPrefix("v2", 1)
  /\ \E r \in Range(scanDone) :
       /\ ~r.request.useGroupFilters
       /\ \E k \in DOMAIN r.index : r.index[k].variableId = "v2"
       /\ \A k \in DOMAIN r.index : r.index[k].variableId # "v1"

\* C24: the same catalog scanned with the filter, the key mapped to the earlier entry
C24_FilteredFirstKept ==
  /\ SameExactKey("v1", "v2", NameLight)
  /\ ValueIn("v1", NameLight).a # ValueIn("v2", NameLight).a
  /\ UnderPrefix("v1", 2) /\ UnderPrefix("v2", 2)
  /\ \E r \in Range(scanDone) :
       /\ r.request.useGroupFilters
       /\ \E k \in DOMAIN r.index : r.index[k].variableId = "v1"
       /\ \A k \in DOMAIN r.index : r.index[k].variableId # "v2"

(***************************************************************************)
(* Mode names: scans and candidate lookups of one collection under mode    *)
(* names written in another case or naming no mode, and of a collection    *)
(* without modes                                                           *)
(***************************************************************************)
NameLightLower == <<"l","i","g","h","t">>
NameDarkUpper == <<"D","A","R","K">>
NameContrast == <<"C","o","n","t","r","a","s","t">>

\* Catalogs whose two modes hold different colours
ModeVariables ==
  { [v \in VarIds |-> IF v = "v1" THEN Variable(NameColorBlue, "COLOR", c[1], c[2])
                      ELSE Variable(NameBlackInk, "COLOR", c[3], c[4])]
    : c \in { <<ColorValue(Blue, AlphaOne), ColorValue(Red, AlphaOne),
                ColorValue(NearBlue, AlphaOne), AliasValue>>,
              <<ColorValue(Blue, AlphaOne), ColorValue(Blue, 500),
                AliasValue, ColorValue(Red, AlphaOne)>> } }

ModeNames == {NameLight, NameLightLower, NameDarkUpper, NameContrast}

ModeScanRequests ==
  { [collectionName |-> q[1], mode |-> q[2], useGroupFilters |-> FALSE]
    : q \in ({NamePrimitive} \X ModeNames) \cup {<<NameBare, NameLight>>} }

ModeLookupRequests ==
  { [kind |-> "getCandidatesForHex", collectionName |-> q[1], mode |-> q[2],
     useGroupFilters |-> FALSE, hex |-> HexRed]
    : q \in ({NamePrimitive} \X ModeNames) \cup {<<NameBare, NameLight>>} }

InitMode ==
  /\ variables \in ModeVariables
  /\ nodes \in ApplyNodes
  /\ selection = <<>>
  /\ edits = 0
  /\ commands = 0
  /\ InitPlugin

NextMode ==
  \/ \E req \in ModeScanRequests : ScanStart(req)
  \/ ScanFinish
  \/ \E req \in ModeLookupRequests : LookupHit(req)
  \/ \E req \in ModeLookupRequests : LookupMiss(req)
  \/ LookupFinish

SpecMode == InitMode /\ [][NextMode]_vars

\* The local collection of a name, as the requests of this section write it
CollectionNamed(name) ==
  LocalCollections[CHOOSE i \in 1..Len(LocalCollections) : LocalCollections[i].name = name]

\* The mode ids the claim allows for a requested name: those of the modes whose
\* name is the requested one but for the case of its letters, the first mode's when
\* there is none
ClaimedModeIds(collection, mode) ==
  LET same == {i \in 1..Len(collection.modes) :
                 /\ Len(collection.modes[i].name) = Len(mode)
                 /\ \A k \in 1..Len(mode) :
                      toLowerCaseChar(collection.modes[i].name[k]) = toLowerCaseChar(mode[k])}
  IN  IF same # {} THEN {collection.modes[i].modeId : i \in same}
      ELSE {collection.modes[1].modeId}

\* The colour entries of a collection in a mode
ColorEntriesIn(collection, modeId) ==
  { e \in Range(collection.variableIds) :
      /\ variables[e].exists /\ variables[e].resolvedType = "COLOR"
      /\ variables[e].valuesByMode[modeId].kind = "color" }

\* The exact index is that of the mode: its keys are those of the mode's colour
\* entries and each key leads to an entry with that key in the mode
IndexOfMode(index, collection, modeId) ==
  LET KeyIn(e) == LET v == variables[e].valuesByMode[modeId]
                  IN  <<v.r, v.g, v.b, Round2(v.a)>>
  IN  /\ DOMAIN index = {KeyIn(e) : e \in ColorEntriesIn(collection, modeId)}
      /\ \A k \in DOMAIN index :
           /\ index[k].variableId \in ColorEntriesIn(collection, modeId)
           /\ KeyIn(index[k].variableId) = k

\* The candidate list is that of the mode: its colour entries, with the mode's r, g, b
ListOfMode(list, collection, modeId) ==
  /\ {list[k].variableId : k \in 1..Len(list)} = ColorEntriesIn(collection, modeId)
  /\ \A k \in 1..Len(list) :
       LET v == variables[list[k].variableId].valuesByMode[modeId]
       IN  <<list[k].r, list[k].g, list[k].b>> = <<v.r, v.g, v.b>>

\* C25: for a local collection with modes, the exact index of a scan and the
\* candidate list of a lookup are those of the mode whose name is the requested one
\* but for case, and those of the collection's first mode when no name is; a name
\* that matches no mode raises no error of its own, so the index is empty only when
\* the mode used holds no colour entry.  For a collection with no modes the index
\* and the list are empty.
C25_ModeResolution ==
  /\ \A r \in Range(scanDone) :
       LET collection == CollectionNamed(r.request.collectionName)
       IN  IF collection.modes = <<>>
           THEN r.index = EmptyMap /\ r.error # Null
           ELSE \E modeId \in ClaimedModeIds(collection, r.request.mode) :
                  /\ IndexOfMode(r.index, collection, modeId)
                  /\ ColorEntriesIn(collection, modeId) # {} => r.error = Null
  /\ \A r \in Range(lookupDone) :
       LET collection == CollectionNamed(r.key[1])
       IN  IF collection.modes = <<>>
           THEN r.list = <<>>
           ELSE /\ r.error = Null
                /\ \E modeId \in ClaimedModeIds(collection, r.key[2]) :
                     ListOfMode(r.list, collection, modeId)

\* C25 witness: a scan under a name that is no mode's has answered with the index of
\* the first mode, which differs from that of the second, and a lookup under the
\* second mode's name in capitals with the list of the second mode
C25_Witness ==
  /\ \E r \in Range(scanDone) :
       /\ r.request.collectionName = NamePrimitive
       /\ r.request.mode = NameContrast
       /\ r.error = Null
       /\ IndexOfMode(r.index, LocalCollections[1], "m1")
       /\ ~IndexOfMode(r.index, LocalCollections[1], "m2")
  /\ \E r \in Range(lookupDone) :
       /\ r.key[1] = NamePrimitive
       /\ r.key[2] = NameDarkUpper
       /\ ListOfMode(r.list, LocalCollections[1], "m2")
       /\ ~ListOfMode(r.list, LocalCollections[1], "m1")

\* C25: a scan of the collection without modes has answered with an empty index
C25_NoModes ==
  \E r \in Range(scanDone) :
    /\ r.request.collectionName = NameBare
    /\ r.index = EmptyMap

(***************************************************************************)
(* Accounting and drift (checked under SpecBind), scan summaries (checked   *)
(* under SpecIndex)                                                        *)
(***************************************************************************)
\* appliedCount + skippedCount + failedCount of a response
Counted(r) == r.result.appliedCount + r.result.skippedCount + r.result.failedCount

\* C26: in every response to apply() or applyTokenToColor(), the three counts add
\* up to the number of target items of the call, also when a lookup of a variable
\* or an element raised part-way through the batch.
C26_OutcomeAccounting ==
  \A r \in BinderResponses : Counted(r) = Len(r.items)

\* C26: the counts add up in every response of a call in which no lookup raised
C26_AccountingWithoutRaise ==
  \A r \in BinderResponses : r.error = Null => Counted(r) = Len(r.items)

\* C26: apply() bound its first item, the lookup for the second raised, and the
\* response counts nothing
C26_CountsLost ==
  \E r \in Range(applyDone) :
    /\ r.trace = <<"applied", "lookupRaised">>
    /\ Len(r.items) = 2
    /\ Counted(r) = 0
    /\ r.error \in LookupErrors

\* The hexes of matchedColors of a scan response
MatchedHexes(r) == {r.matchedColors[k].hex : k \in 1..Len(r.matchedColors)}

\* The hexes of the items of a scan response that have, or have not, a match
HexesOfItems(r, matched) ==
  {ItemHex(r.items[i]) : i \in {j \in 1..Len(r.items) : IsMatched(r.items[j]) = matched}}

\* C27 (as claimed): in every scan result no hex is both in matchedColors and in
\* noMatchColors: a hex reported matched has no unmatched item and a hex reported
\* no-match has no matched item.
C27_MatchedNoMatchDisjoint ==
  \A r \in Range(scanDone) :
    /\ MatchedHexes(r) \cap r.noMatchColors = {}
    /\ MatchedHexes(r) \cap HexesOfItems(r, FALSE) = {}
    /\ r.noMatchColors \cap HexesOfItems(r, TRUE) = {}

\* C27 (amended): in every scan result a hex is in matchedColors exactly when some
\* item of that hex has a match and in noMatchColors exactly when some item of that
\* hex has none; a hex is in both exactly when its items differ in outcome.
C27_HexSummaries ==
  \A r \in Range(scanDone) :
    /\ MatchedHexes(r) = HexesOfItems(r, TRUE)
    /\ r.noMatchColors = HexesOfItems(r, FALSE)
    /\ MatchedHexes(r) \cap r.noMatchColors = HexesOfItems(r, TRUE) \cap HexesOfItems(r, FALSE)

\* C27 witness: a scan has answered for two slots of one colour whose opacities
\* round apart, one matched and one not; their hex is in both lists
C27_Witness ==
  \E r \in Range(scanDone) :
    /\ r.error = Null
    /\ \E i, j \in 1..Len(r.items) :
         /\ r.items[i].currentColor = r.items[j].currentColor
         /\ r.items[i].opacity # r.items[j].opacity
         /\ IsMatched(r.items[i]) /\ ~IsMatched(r.items[j])
    /\ HexBlue \in MatchedHexes(r)
    /\ HexBlue \in r.noMatchColors

\* C28: whenever apply() binds a variable onto a slot, the colour and the rounded
\* opacity the slot holds at that moment are those recorded for the item by the
\* scan, whatever was edited on the element between the scan and the apply.
C28_BindingSoundUnderDrift ==
  [][ \A n \in NodeIds, property \in {"fills", "strokes"} :
        \A k \in 1..Len(PaintList(nodes, n, property).paints) :
          ApplyBinds(n, property, k) =>
            LET paint == PaintList(nodes, n, property).paints[k]
                item == applyProc.items[applyProc.i]
            IN  /\ paint.color = item.currentColor
                /\ Round2(paint.opacity) = Round2(item.opacity) ]_vars

\* C28: a fill that was blue when scanned and repainted red since carries the blue
\* entry, bound by apply()
C28_RepaintedSlotBound ==
  /\ nodes["n2"].fills.paints = <<[SolidPaint(Red, AlphaOne) EXCEPT !.bound = "v1"]>>
  /\ variables["v1"].valuesByMode["m1"] = ColorValue(Blue, AlphaOne)
  /\ \E r \in Range(applyDone) : r.trace = <<"applied", "applied">> /\ r.dirty

====
